---- MODULE Spec2Model ----
(***************************************************************************)
(* A model of the rlog logging core: the severity/tag filter, the record   *)
(* constructor, the non-blocking distribution bus (pushToChannels), the    *)
(* module registry and the Start / EnableModule / ResetState lifecycle,    *)
(* the flush protocol (Flush, flushHelper and the flush case of a module's *)
(* loop), GenerateID, and the configuration methods of RlogConfig.         *)
(*                                                                         *)
(* Every goroutine that uses the API is a process of Procs.  A logging     *)
(* call is a sequence of steps: the entry of genericLogHandler (check of   *)
(* initialized, the two filters, the construction of the record), the      *)
(* start of pushToChannels (the read of msgChannels), and then one step    *)
(* per non-blocking select and per nonBlockingChanRead of                  *)
(* pushToChannelsHelper.  Modules are goroutines of their own.             *)
(***************************************************************************)
EXTENDS Integers, Sequences, FiniteSets, TLC

(***************************************************************************)
(* Bounds of the model.                                                    *)
(***************************************************************************)
NumProcs == 2       \* goroutines calling the API
MaxModules == 2     \* length of activeModules
MaxChans == 2       \* channel pairs created over all Start calls
MaxCap == 2         \* largest ChanCapacity of a started configuration
MaxRecs == 3        \* records constructed in one behaviour
MaxTags == 2        \* length of a tag slice given to a configuration method
MaxAcks == 3        \* response channels put into a flush channel in one behaviour
MaxIds == 3         \* calls of GenerateID in one behaviour
MaxEvictRecs == 4   \* records constructed in one behaviour of the eviction specification

Procs == 1..NumProcs
ChanIds == 1..MaxChans
AckIds == 1..MaxAcks

(***************************************************************************)
(* Severity levels (iota constants) and the order the documentation gives  *)
(* them, most severe first.                                                *)
(***************************************************************************)
SeverityFatal == 0
SeverityError == 1
SeverityWarning == 2
SeverityInfo == 3
SeverityDebug == 4

Severities == {SeverityFatal, SeverityError, SeverityWarning, SeverityInfo, SeverityDebug}

Range(s) == {s[i] : i \in 1..Len(s)}

\* The empty string is the tag the untagged API functions pass.
NoTag == ""
Tags == {NoTag, "a", "b"}

(***************************************************************************)
(* A Go map[string]bool of the configuration: nil is <<>>, a map made by   *)
(* createAndFillStringHt is <<K>> with K the set of its keys (every value  *)
(* stored is true).                                                        *)
(***************************************************************************)
NilMap == <<>>

RECURSIVE FillHt(_, _)
FillHt(tags, ht) ==
  IF tags = <<>> THEN ht ELSE FillHt(Tail(tags), ht \cup {Head(tags)})

createAndFillStringHt(tags) == <<FillHt(tags, {})>>

\* m[tag] of Go: the zero value false for a missing key
MapLookup(m, tag) == m # NilMap /\ tag \in m[1]

\* var config RlogConfig: the zero value
ZeroConfig ==
  [ChanCapacity |-> 0, FlushTimeout |-> 0, Severity |-> 0,
   tagsDisabledExcept |-> NilMap, tagsEnabledExcept |-> NilMap]

GetDefaultConfig ==
  [ChanCapacity |-> 100, FlushTimeout |-> 2, Severity |-> SeverityInfo,
   tagsDisabledExcept |-> NilMap, tagsEnabledExcept |-> NilMap]

\* a fault: the other tag set is left as it was
EnableTagsExcept_KeepsOther(c, tags) ==
  [c EXCEPT !.tagsEnabledExcept = createAndFillStringHt(tags)]

EnableTagsExcept(c, tags) ==
  [c EXCEPT !.tagsDisabledExcept = NilMap,
            !.tagsEnabledExcept = createAndFillStringHt(tags)]

DisableTagsExcept(c, tags) ==
  [c EXCEPT !.tagsDisabledExcept = createAndFillStringHt(tags),
            !.tagsEnabledExcept = NilMap]

(***************************************************************************)
(* SeverityFromString.  The string given to it is a sequence of            *)
(* characters.  strings.ToLower maps every character with unicode.ToLower: *)
(* the capital letters A..Z to a..z, U+0130 (capital I with dot above) to  *)
(* i by the simple case mapping of the Unicode tables, and it leaves the   *)
(* other characters of Characters as they are.                             *)
(***************************************************************************)
LowerLetters ==
  <<"a", "b", "c", "d", "e", "f", "g", "h", "i", "j", "k", "l", "m",
    "n", "o", "p", "q", "r", "s", "t", "u", "v", "w", "x", "y", "z">>

UpperLetters ==
  <<"A", "B", "C", "D", "E", "F", "G", "H", "I", "J", "K", "L", "M",
    "N", "O", "P", "Q", "R", "S", "T", "U", "V", "W", "X", "Y", "Z">>

CapitalIWithDot == "U+0130"

Characters == Range(LowerLetters) \cup Range(UpperLetters) \cup {CapitalIWithDot, " "}

unicodeToLower(ch) ==
  IF \E i \in 1..Len(UpperLetters) : UpperLetters[i] = ch
    THEN LowerLetters[CHOOSE i \in 1..Len(UpperLetters) : UpperLetters[i] = ch]
    ELSE IF ch = CapitalIWithDot THEN "i" ELSE ch

\* a fault: the string is compared as it was given
ToLower_Identity(value) == value

ToLower(value) == [i \in 1..Len(value) |-> unicodeToLower(value[i])]

\* the case of the switch that is taken; "default" panics
SeverityCase(value) ==
  CASE ToLower(value) = <<"f", "a", "t", "a", "l">> -> "fatal"
    [] ToLower(value) = <<"e", "r", "r", "o", "r">> -> "error"
    [] ToLower(value) = <<"w", "a", "r", "n", "i", "n", "g">> -> "warning"
    [] ToLower(value) = <<"i", "n", "f", "o">> -> "info"
    [] ToLower(value) = <<"d", "e", "b", "u", "g">> -> "debug"
    [] OTHER -> "default"

\* the panic of the default case: the method does not return
SeverityFromStringPanics(value) == SeverityCase(value) = "default"

\* the receiver when the method has returned or panicked
SeverityFromString(c, value) ==
  CASE SeverityCase(value) = "fatal" -> [c EXCEPT !.Severity = SeverityFatal]
    [] SeverityCase(value) = "error" -> [c EXCEPT !.Severity = SeverityError]
    [] SeverityCase(value) = "warning" -> [c EXCEPT !.Severity = SeverityWarning]
    [] SeverityCase(value) = "info" -> [c EXCEPT !.Severity = SeverityInfo]
    [] SeverityCase(value) = "debug" -> [c EXCEPT !.Severity = SeverityDebug]
    [] OTHER -> c

(***************************************************************************)
(* Strings that are searched are sequences of words.                       *)
(***************************************************************************)
Contains(s, sub) ==
  \E i \in 0..(Len(s) - Len(sub)) : SubSeq(s, i + 1, i + Len(sub)) = sub

AlreadyInitializedText ==
  <<"Logger", "initialization", "triggered", "but", "logger", "already", "initialized">>

CannotModifyText ==
  <<"Cannot", "modify", "StdoutModuleConfig", "when", "logger", "already", "running">>

UserText == <<"user", "message">>

\* The API functions: level string, severity and posInfo of each.
ApiNames == {"Fatal", "Error", "Warning", "Info", "Debug"}

ApiLevel(fn) ==
  CASE fn = "Fatal" -> "FATAL" [] fn = "Error" -> "ERROR" [] fn = "Warning" -> "WARNING"
    [] fn = "Info" -> "INFO" [] fn = "Debug" -> "DEBUG"

ApiSeverity(fn) ==
  CASE fn = "Fatal" -> SeverityFatal [] fn = "Error" -> SeverityError
    [] fn = "Warning" -> SeverityWarning [] fn = "Info" -> SeverityInfo
    [] fn = "Debug" -> SeverityDebug

ApiPosInfo(fn) == fn \in {"Fatal", "Error"}

\* strconv.Itoa of a line number
DecimalDigits == <<"0", "1", "2", "3", "4", "5", "6", "7", "8", "9">>

RECURSIVE Itoa(_)
Itoa(n) ==
  IF n < 10 THEN DecimalDigits[n + 1]
            ELSE Itoa(n \div 10) \o DecimalDigits[(n % 10) + 1]

\* the header is "<" + level + "> ", and "[" + file + ":" + Itoa(line) + "] "
\* with posInfo: one word each
formatHeaders(posInfo, level, file, line) ==
  <<"<" \o level \o ">">>
    \o (IF posInfo THEN <<"[" \o file \o ":" \o Itoa(line) \o "]">> ELSE <<>>)

\* A record as pushToChannels gets it; id stands for the pointer.
NoRec == [id |-> 0, Severity |-> 0, Msg |-> <<>>, Pc |-> 0, StackTrace |-> <<>>]

\* raw := logPieces{level, logMsg, severity, posInfo, file, line, pc, trace}
\* and raw.generateLogMsg(); pos is what getLogCallPos returned
generateLogMsg(id, level, text, severity, posInfo, pos, stackTrace) ==
  [id |-> id, Severity |-> severity,
   Msg |-> formatHeaders(posInfo, level, pos.file, pos.line) \o text,
   Pc |-> pos.pc, StackTrace |-> stackTrace]

(***************************************************************************)
(* getLogCallPos.  runtime.Caller(3) gives the frame three levels above    *)
(* getLogCallPos: above genericLogHandler and the API function, that is    *)
(* the function that called the API.  When the runtime cannot give the     *)
(* frame, ok is false and the other results are zero values.               *)
(***************************************************************************)
\* what runtime.Caller returns when it cannot resolve the frame
CallerNotOk == [ok |-> FALSE, pc |-> 0, file |-> "", line |-> 0]

\* what runtime.Caller(3) returns for the call of goroutine p: the place in
\* the program of p where it calls the API, or the place in Start or
\* EnableModule where Error is called
Caller3(p, op) ==
  IF op = "start" THEN [ok |-> TRUE, pc |-> 4096 + 99, file |-> "rlog.go", line |-> 99]
  ELSE IF op = "enable" THEN [ok |-> TRUE, pc |-> 4096 + 108, file |-> "rlog.go", line |-> 108]
  ELSE [ok |-> TRUE, pc |-> 8192 + p, file |-> "main.go", line |-> 10 + p]

\* a fault: the results of runtime.Caller are returned whatever ok is
getLogCallPos_IgnoresOk(frame) ==
  [pc |-> frame.pc, file |-> frame.file, line |-> frame.line]

\* pc, file, line, ok := runtime.Caller(3); if !ok { pc = 0; file =
\* "unknown"; line = 0 } (and a line on the standard logger, which is not
\* part of the state)
getLogCallPos(frame) ==
  IF frame.ok THEN [pc |-> frame.pc, file |-> frame.file, line |-> frame.line]
              ELSE [pc |-> 0, file |-> "unknown", line |-> 0]

(***************************************************************************)
(* getStackTrace.  A string that is cut at newlines is the sequence of its *)
(* lines; the empty string is <<>>.  runtime.Stack writes the header line  *)
(* of the goroutine and two lines for every frame, the innermost first:    *)
(* getStackTrace, genericLogHandler, the API function, then the frames of  *)
(* the caller (for a goroutine other than main the last pair is the        *)
(* "created by" pair).  Every line ends with a newline, so SplitAfterN     *)
(* with n = cutLines gives cutLines - 1 lines and the remainder as piece   *)
(* cutLines - 1 (counted from 0); the remainder is empty when the stack    *)
(* has exactly cutLines - 1 lines.  A stack of fewer lines, where the      *)
(* index is out of range, needs a caller without a frame and a stack that  *)
(* was cut by the 2048 bytes of buf within its first seven lines; neither  *)
(* is among the stacks of CallerFrames.                                    *)
(***************************************************************************)
cutLines == 8

RECURSIVE FrameLines(_)
FrameLines(frames) ==
  IF frames = <<>> THEN <<>>
  ELSE <<Head(frames) \o "(...)", "\t" \o Head(frames) \o ".go:line">>
         \o FrameLines(Tail(frames))

\* n := runtime.Stack(buf, false); str := string(buf[0:n])
runtimeStack(api, callers) ==
  <<"goroutine [running]:">>
    \o FrameLines(<<"rlog.getStackTrace", "rlog.genericLogHandler", api>> \o callers)

\* strings.SplitAfterN(str, "\n", n)[n-1], and TrimRight of the last newline
SplitAfterN_Last(lines, n) == SubSeq(lines, n, Len(lines))

getStackTrace(api, callers) == SplitAfterN_Last(runtimeStack(api, callers), cutLines)

\* a fault: the trace is obtained for fatal only
TraceWanted_FatalOnly(severity) == severity < SeverityError

\* if severity <= SeverityError: stack trace only for fatal and error
TraceWanted(severity) == severity <= SeverityError

\* generateRandomNumber: (Int63n(1<<14) + 1) << 8, for Int63n = 0
RandomNumbers == {(0 + 1) * 256}

\* r.Int63n(1<<14) returns a number of 0 .. 2^14 - 1; the draws that the
\* behaviours of the ID specification take: the least, the next and the
\* greatest
Int63nValues == {0, 1, 2^14 - 1}

\* uint64((r.Int63n(1<<14) + 1) << 8), for the draw n of Int63n
generateRandomNumber(n) == (n + 1) * 2^8

VARIABLES
  initialized,      \* var initialized bool
  config,           \* var config RlogConfig
  activeModules,    \* list of the modules given to EnableModule
  msgChannels,      \* list of message channels (ids)
  flushChannels,    \* list of flush channels (ids)
  uniqueMsgID,      \* the ID counter
  chanBuf,          \* queue of each message channel
  chanCap,          \* capacity of each message channel
  nextChan,         \* number of channel pairs made so far, plus one
  modPc,            \* position of each module goroutine
  modCur,           \* the record a module is printing
  pc,               \* position of each API caller
  rec,              \* the record a caller is pushing
  pushList,         \* the list pushToChannels iterates (msgChannels as read)
  pushIdx,          \* the element e of that list
  retries,          \* retries of pushToChannelsHelper
  nextRec,          \* records constructed so far, plus one
  call,             \* history: the API call a process made last
  ret,              \* history: what genericLogHandler returned to it
  outcome,          \* history: the channels on which its send succeeded, in order
  userConf,         \* an RlogConfig value in the hands of the program
  confCall,         \* history: the last tag method called on userConf
  flushBuf,         \* queue of each flush channel (capacity 1) of response channels
  ackBuf,           \* queue of each response channel (capacity 1)
  nextAck,          \* response channels put into a flush channel so far, plus one
  modRet,           \* the response channel a module has read (ret)
  flushList,        \* the list Flush iterates (flushChannels as read)
  flushIdx,         \* the element e of that list
  responseChan,     \* responseChan of the flushHelper a caller is in
  flushRes,         \* history: what flushHelper returned for each element
  issued,           \* history: the IDs GenerateID has returned, in order
  diag,             \* lines the pushToChannelsHelper a caller is in has written with log.Printf
  lost,             \* history: queued records that pushToChannelsHelper has removed
  launchIdx,        \* the element e of activeModules that launchAllModules is at
  served            \* history, per response channel: the records that were queued when
                    \* the module read the request and that it has not taken since
                    \* (owed), and those of them that a logging call removed (evicted)

vars ==
  <<initialized, config, activeModules, msgChannels, flushChannels, uniqueMsgID,
    chanBuf, chanCap, nextChan, modPc, modCur,
    pc, rec, pushList, pushIdx, retries, nextRec, call, ret, outcome,
    userConf, confCall,
    flushBuf, ackBuf, nextAck, modRet, flushList, flushIdx, responseChan, flushRes,
    issued, diag, lost, launchIdx, served>>

coreVars == <<initialized, config, activeModules, msgChannels, flushChannels, uniqueMsgID>>
chanVars == <<chanBuf, chanCap, nextChan>>
modVars == <<modPc, modCur>>
pushVars == <<pc, rec, pushList, pushIdx, retries>>
histVars == <<call, ret, outcome>>
confVars == <<userConf, confCall>>
flushVars ==
  <<flushBuf, ackBuf, nextAck, modRet, flushList, flushIdx, responseChan, flushRes>>
sideVars == <<diag, lost, launchIdx, served>>

NoServed == [owed |-> {}, evicted |-> {}]

NoCall == [op |-> "none", severity |-> 0, tag |-> NoTag, built |-> FALSE]

Init ==
  /\ initialized = FALSE
  /\ config = ZeroConfig
  /\ activeModules = <<>>
  /\ msgChannels = <<>>
  /\ flushChannels = <<>>
  /\ uniqueMsgID = 0
  /\ chanBuf = [c \in ChanIds |-> <<>>]
  /\ chanCap = [c \in ChanIds |-> 0]
  /\ nextChan = 1
  /\ modPc = [c \in ChanIds |-> "none"]
  /\ modCur = [c \in ChanIds |-> NoRec]
  /\ pc = [p \in Procs |-> "idle"]
  /\ rec = [p \in Procs |-> NoRec]
  /\ pushList = [p \in Procs |-> <<>>]
  /\ pushIdx = [p \in Procs |-> 0]
  /\ retries = [p \in Procs |-> 0]
  /\ nextRec = 1
  /\ call = [p \in Procs |-> NoCall]
  /\ ret = [p \in Procs |-> "none"]
  /\ outcome = [p \in Procs |-> <<>>]
  /\ userConf = GetDefaultConfig
  /\ confCall = [mode |-> "none", tags |-> <<>>]
  /\ flushBuf = [c \in ChanIds |-> <<>>]
  /\ ackBuf = [a \in AckIds |-> <<>>]
  /\ nextAck = 1
  /\ modRet = [c \in ChanIds |-> 0]
  /\ flushList = [p \in Procs |-> <<>>]
  /\ flushIdx = [p \in Procs |-> 0]
  /\ responseChan = [p \in Procs |-> 0]
  /\ flushRes = [p \in Procs |-> <<>>]
  /\ issued = <<>>
  /\ diag = [p \in Procs |-> 0]
  /\ lost = [p \in Procs |-> 0]
  /\ launchIdx = [p \in Procs |-> 0]
  /\ served = [a \in AckIds |-> NoServed]

(***************************************************************************)
(* The filter.                                                             *)
(***************************************************************************)
\* a fault: the threshold is not applied
isFilteredSeverity_Never(severity) == FALSE

\* a fault: a record at the threshold is dropped too
isFilteredSeverity_AtThreshold(severity) == severity >= config.Severity

isFilteredSeverity(severity) == severity > config.Severity

\* a fault: the result of the lookup is not negated in the deny-except mode
isFilteredTag_NoNegation(tag) ==
  IF config.tagsEnabledExcept # NilMap
    THEN MapLookup(config.tagsEnabledExcept, tag)
    ELSE IF config.tagsDisabledExcept # NilMap
      THEN MapLookup(config.tagsDisabledExcept, tag)
      ELSE FALSE

\* a variant: the empty tag is let through before the tag sets are looked at
isFilteredTag_EmptyTagPasses(tag) ==
  IF tag = NoTag
    THEN FALSE
    ELSE IF config.tagsEnabledExcept # NilMap
      THEN MapLookup(config.tagsEnabledExcept, tag)
      ELSE IF config.tagsDisabledExcept # NilMap
        THEN ~MapLookup(config.tagsDisabledExcept, tag)
        ELSE FALSE

isFilteredTag(tag) ==
  IF config.tagsEnabledExcept # NilMap
    THEN MapLookup(config.tagsEnabledExcept, tag)
    ELSE IF config.tagsDisabledExcept # NilMap
      THEN ~MapLookup(config.tagsDisabledExcept, tag)
      ELSE FALSE

(***************************************************************************)
(* genericLogHandler up to the call of pushToChannels.  op names the API   *)
(* function that called it (history only).                                 *)
(***************************************************************************)
\* the frame of the API function that called genericLogHandler: Start and
\* EnableModule call Error
ApiFrame(op, level) == IF op = "log" THEN "rlog." \o level ELSE "rlog.Error"

\* the frames above the API function: the function of the goroutine, and
\* below it Start or EnableModule when the message is theirs
CallerFrames(p, op) ==
  (IF op = "start" THEN <<"rlog.Start">>
   ELSE IF op = "enable" THEN <<"rlog.EnableModule">> ELSE <<>>)
    \o (IF p = 1 THEN <<"main.main">> ELSE <<"main.worker", "created by main.main">>)

\* a fault: the check of initialized is missing
LoggerNotInitialized_NoCheck == FALSE

LoggerNotInitialized == ~initialized

\* genericLogHandler in a behaviour in which limit records are built at most
\* and runtime.Caller(3) returns frame
genericLogHandlerAt(limit, frame, p, op, level, tag, text, severity, posInfo) ==
  /\ outcome' = [outcome EXCEPT ![p] = <<>>]
  /\ IF LoggerNotInitialized
       THEN /\ ret' = [ret EXCEPT ![p] = "false"]
            /\ call' = [call EXCEPT ![p] =
                 [op |-> op, severity |-> severity, tag |-> tag, built |-> FALSE]]
            /\ pc' = [pc EXCEPT ![p] = "ret"]
            /\ UNCHANGED <<rec, nextRec>>
       ELSE IF isFilteredSeverity(severity) \/ isFilteredTag(tag)
         THEN /\ ret' = [ret EXCEPT ![p] = "true"]
              /\ call' = [call EXCEPT ![p] =
                   [op |-> op, severity |-> severity, tag |-> tag, built |-> FALSE]]
              /\ pc' = [pc EXCEPT ![p] = "ret"]
              /\ UNCHANGED <<rec, nextRec>>
         ELSE /\ nextRec <= limit
              /\ rec' = [rec EXCEPT ![p] =
                   generateLogMsg(nextRec, level, text, severity, posInfo,
                     getLogCallPos(frame),
                     IF TraceWanted(severity)
                       THEN getStackTrace(ApiFrame(op, level), CallerFrames(p, op))
                       ELSE <<>>)]
              /\ nextRec' = nextRec + 1
              /\ pc' = [pc EXCEPT ![p] = "push"]
              /\ ret' = [ret EXCEPT ![p] = "none"]
              /\ call' = [call EXCEPT ![p] =
                   [op |-> op, severity |-> severity, tag |-> tag, built |-> TRUE]]
  /\ UNCHANGED <<pushList, pushIdx, retries>>

\* genericLogHandler where the runtime resolves the call site
genericLogHandlerUpTo(limit, p, op, level, tag, text, severity, posInfo) ==
  genericLogHandlerAt(limit, Caller3(p, op), p, op, level, tag, text, severity, posInfo)

genericLogHandler(p, op, level, tag, text, severity, posInfo) ==
  genericLogHandlerUpTo(MaxRecs, p, op, level, tag, text, severity, posInfo)

\* Fatal, Error, Warning, Info, Debug (tag = NoTag) and FatalT .. DebugT
LogCallUpTo(limit, p, fn, tag) ==
  /\ pc[p] = "idle"
  /\ genericLogHandlerUpTo(limit, p, "log", ApiLevel(fn), tag, UserText, ApiSeverity(fn),
                           ApiPosInfo(fn))
  /\ UNCHANGED <<coreVars, chanVars, modVars, confVars, flushVars, issued, sideVars>>

LogCall(p, fn, tag) == LogCallUpTo(MaxRecs, p, fn, tag)

\* a logging call whose call site the runtime cannot resolve
LogCallUnresolved(p, fn, tag) ==
  /\ pc[p] = "idle"
  /\ genericLogHandlerAt(MaxRecs, CallerNotOk, p, "log", ApiLevel(fn), tag, UserText,
                         ApiSeverity(fn), ApiPosInfo(fn))
  /\ UNCHANGED <<coreVars, chanVars, modVars, confVars, flushVars, issued, sideVars>>

(***************************************************************************)
(* pushToChannels and pushToChannelsHelper.                                *)
(***************************************************************************)
\* a fault: one retry too many
RetryLimit_OneMore == 3 + 1

RetryLimit == 3

CurChan(p) == pushList[p][pushIdx[p]]

\* a fault: the last free slot of a buffer is not used
CanSend_KeepsOneFree(c) ==
  IF chanCap[c] = 0 THEN modPc[c] = "select" ELSE Len(chanBuf[c]) + 1 < chanCap[c]

\* a non-blocking send can proceed: a free slot in the buffer, or for an
\* unbuffered channel the module waiting in its select
CanSend(c) ==
  IF chanCap[c] = 0 THEN modPc[c] = "select" ELSE Len(chanBuf[c]) < chanCap[c]

\* a fault: the record is given up for the remaining channels as soon as
\* it could not be sent on one
NextElement_StopOnFailure(p, ok) ==
  /\ outcome' = [outcome EXCEPT ![p] = IF ok THEN Append(@, CurChan(p)) ELSE @]
  /\ retries' = [retries EXCEPT ![p] = 0]
  /\ diag' = [diag EXCEPT ![p] = 0]
  /\ lost' = [lost EXCEPT ![p] = 0]
  /\ pushIdx' = [pushIdx EXCEPT ![p] = @ + 1]
  /\ IF pushIdx[p] < Len(pushList[p]) /\ ok
       THEN /\ pc' = [pc EXCEPT ![p] = "send"]
            /\ UNCHANGED ret
       ELSE /\ pc' = [pc EXCEPT ![p] = "ret"]
            /\ ret' = [ret EXCEPT ![p] = "true"]

\* the loop of pushToChannels goes on to e.Next(), or the call returns
NextElement(p, ok) ==
  /\ outcome' = [outcome EXCEPT ![p] = IF ok THEN Append(@, CurChan(p)) ELSE @]
  /\ retries' = [retries EXCEPT ![p] = 0]
  /\ diag' = [diag EXCEPT ![p] = 0]
  /\ lost' = [lost EXCEPT ![p] = 0]
  /\ pushIdx' = [pushIdx EXCEPT ![p] = @ + 1]
  /\ IF pushIdx[p] < Len(pushList[p])
       THEN /\ pc' = [pc EXCEPT ![p] = "send"]
            /\ UNCHANGED ret
       ELSE /\ pc' = [pc EXCEPT ![p] = "ret"]
            /\ ret' = [ret EXCEPT ![p] = "true"]

\* e := msgChannels.Front()
PushBegin(p) ==
  /\ pc[p] = "push"
  /\ pushList' = [pushList EXCEPT ![p] = msgChannels]
  /\ retries' = [retries EXCEPT ![p] = 0]
  /\ IF msgChannels = <<>>
       THEN /\ pc' = [pc EXCEPT ![p] = "ret"]
            /\ ret' = [ret EXCEPT ![p] = "true"]
            /\ pushIdx' = [pushIdx EXCEPT ![p] = 1]
       ELSE /\ pc' = [pc EXCEPT ![p] = "send"]
            /\ pushIdx' = [pushIdx EXCEPT ![p] = 1]
            /\ UNCHANGED ret
  /\ UNCHANGED <<coreVars, chanVars, modVars, confVars, flushVars, issued, sideVars>>
  /\ UNCHANGED <<rec, nextRec, call, outcome>>

\* a variant: nothing is written when a send fails
LogPrintf_Silent(n) == n

\* log.Printf("[RightLog4Go] Log buffer full, delete and retry"): one more
\* line on the standard logger
LogPrintf(n) == n + 1

\* a fault: the loop of pushToChannelsHelper goes on after a successful send
SendAttempt_NoSuccessExit(p) ==
  /\ pc[p] = "send"
  /\ IF CanSend(CurChan(p))
       THEN /\ IF chanCap[CurChan(p)] = 0
                 THEN /\ modPc' = [modPc EXCEPT ![CurChan(p)] = "busy"]
                      /\ modCur' = [modCur EXCEPT ![CurChan(p)] = rec[p]]
                      /\ UNCHANGED chanBuf
                 ELSE /\ chanBuf' = [chanBuf EXCEPT ![CurChan(p)] = Append(@, rec[p])]
                      /\ UNCHANGED <<modPc, modCur>>
            /\ IF retries[p] + 1 < RetryLimit
                 THEN /\ retries' = [retries EXCEPT ![p] = @ + 1]
                      /\ UNCHANGED <<pc, pushIdx, ret, outcome, diag, lost>>
                 ELSE NextElement(p, TRUE)
       ELSE /\ pc' = [pc EXCEPT ![p] = "evict"]
            /\ diag' = [diag EXCEPT ![p] = LogPrintf(@)]
            /\ UNCHANGED <<chanBuf, modPc, modCur, pushIdx, retries, ret, outcome, lost>>
  /\ UNCHANGED <<coreVars, chanCap, nextChan, confVars, flushVars, issued, rec, pushList, nextRec, call>>
  /\ UNCHANGED <<launchIdx, served>>

\* select { case c <- msg: ... default: ... }
SendAttempt(p) ==
  /\ pc[p] = "send"
  /\ IF CanSend(CurChan(p))
       THEN /\ IF chanCap[CurChan(p)] = 0
                 THEN /\ modPc' = [modPc EXCEPT ![CurChan(p)] = "busy"]
                      /\ modCur' = [modCur EXCEPT ![CurChan(p)] = rec[p]]
                      /\ UNCHANGED chanBuf
                 ELSE /\ chanBuf' = [chanBuf EXCEPT ![CurChan(p)] = Append(@, rec[p])]
                      /\ UNCHANGED <<modPc, modCur>>
            /\ NextElement(p, TRUE)
       ELSE /\ pc' = [pc EXCEPT ![p] = "evict"]
            /\ diag' = [diag EXCEPT ![p] = LogPrintf(@)]
            /\ UNCHANGED <<chanBuf, modPc, modCur, pushIdx, retries, ret, outcome, lost>>
  /\ UNCHANGED <<coreVars, chanCap, nextChan, confVars, flushVars, issued, rec, pushList, nextRec, call>>
  /\ UNCHANGED <<launchIdx, served>>

\* a fault: the newest element is removed
nonBlockingChanRead_Newest(buf) ==
  IF buf = <<>> THEN buf ELSE SubSeq(buf, 1, Len(buf) - 1)

\* nonBlockingChanRead: the oldest element, or nothing from an empty channel
nonBlockingChanRead(buf) == IF buf = <<>> THEN buf ELSE Tail(buf)

\* what nonBlockingChanRead returns: the element read, or nil (NoRec)
nonBlockingChanReadResult(buf) == IF buf = <<>> THEN NoRec ELSE Head(buf)

\* a fault: a plain receive, which waits until the channel holds an element
ReadReady_Blocking(buf) == buf # <<>>

\* the select of nonBlockingChanRead has a default case: it is always ready
ReadReady(buf) == TRUE

\* history: the record r, which was queued in channel c when the module read
\* the flush request it is serving, is removed by a logging call
EvictedWhileServed(c, r) ==
  IF modRet[c] # 0 /\ r.id \in served[modRet[c]].owed
    THEN [served EXCEPT ![modRet[c]] =
            [owed |-> @.owed \ {r.id}, evicted |-> @.evicted \cup {r.id}]]
    ELSE served

\* the default case: nonBlockingChanRead(c), then retries++ and the loop test
Evict(p) ==
  /\ pc[p] = "evict"
  /\ ReadReady(chanBuf[CurChan(p)])
  /\ chanBuf' = [chanBuf EXCEPT ![CurChan(p)] = nonBlockingChanRead(@)]
  /\ IF retries[p] + 1 < RetryLimit
       THEN /\ retries' = [retries EXCEPT ![p] = @ + 1]
            /\ pc' = [pc EXCEPT ![p] = "send"]
            /\ lost' = [lost EXCEPT ![p] =
                 IF nonBlockingChanReadResult(chanBuf[CurChan(p)]) = NoRec THEN @ ELSE @ + 1]
            /\ UNCHANGED <<pushIdx, ret, outcome, diag>>
       ELSE NextElement(p, FALSE)
  /\ served' = EvictedWhileServed(CurChan(p), nonBlockingChanReadResult(chanBuf[CurChan(p)]))
  /\ UNCHANGED launchIdx
  /\ UNCHANGED <<coreVars, chanCap, nextChan, modVars, confVars, flushVars, issued, rec, pushList, nextRec, call>>

\* genericLogHandler (or Flush) has returned; the caller goes on and the
\* history of the call is dropped
Return(p) ==
  /\ pc[p] = "ret"
  /\ pc' = [pc EXCEPT ![p] = "idle"]
  /\ rec' = [rec EXCEPT ![p] = NoRec]
  /\ pushList' = [pushList EXCEPT ![p] = <<>>]
  /\ call' = [call EXCEPT ![p] = NoCall]
  /\ ret' = [ret EXCEPT ![p] = "none"]
  /\ outcome' = [outcome EXCEPT ![p] = <<>>]
  /\ pushIdx' = [pushIdx EXCEPT ![p] = 0]
  /\ flushList' = [flushList EXCEPT ![p] = <<>>]
  /\ flushIdx' = [flushIdx EXCEPT ![p] = 0]
  /\ flushRes' = [flushRes EXCEPT ![p] = <<>>]
  /\ UNCHANGED <<coreVars, chanVars, modVars, confVars, retries, nextRec>>
  /\ UNCHANGED <<flushBuf, ackBuf, nextAck, modRet, responseChan, issued, sideVars>>

(***************************************************************************)
(* The lifecycle: Start, EnableModule, ResetState.                         *)
(***************************************************************************)
\* the modules a program enables: each consumes in a select loop (a module
\* that is stalled or has stopped is one that takes no further step)
ModuleKinds == {"console"}

NewIds == nextChan..(nextChan + Len(activeModules) - 1)

\* a fault: one channel pair is made and given to every module
launchAllModules_SharedChannel(conf) ==
  /\ nextChan + Len(activeModules) - 1 <= MaxChans
  /\ msgChannels' = msgChannels \o [i \in 1..Len(activeModules) |-> nextChan]
  /\ flushChannels' = flushChannels \o [i \in 1..Len(activeModules) |-> nextChan]
  /\ chanBuf' = [c \in ChanIds |-> IF c \in NewIds THEN <<>> ELSE chanBuf[c]]
  /\ chanCap' = [c \in ChanIds |-> IF c \in NewIds THEN conf.ChanCapacity ELSE chanCap[c]]
  /\ modPc' = [c \in ChanIds |-> IF c \in NewIds THEN "launched" ELSE modPc[c]]
  /\ nextChan' = nextChan + Len(activeModules)
  /\ UNCHANGED <<modCur, activeModules>>

\* launchAllModules with getMsgChannel and getFlushChannel: one channel pair
\* and one goroutine for every element of activeModules, in list order
launchAllModules(conf) ==
  /\ nextChan + Len(activeModules) - 1 <= MaxChans
  /\ msgChannels' = msgChannels \o [i \in 1..Len(activeModules) |-> nextChan + i - 1]
  /\ flushChannels' = flushChannels \o [i \in 1..Len(activeModules) |-> nextChan + i - 1]
  /\ chanBuf' = [c \in ChanIds |-> IF c \in NewIds THEN <<>> ELSE chanBuf[c]]
  /\ chanCap' = [c \in ChanIds |-> IF c \in NewIds THEN conf.ChanCapacity ELSE chanCap[c]]
  /\ modPc' = [c \in ChanIds |-> IF c \in NewIds THEN "launched" ELSE modPc[c]]
  /\ nextChan' = nextChan + Len(activeModules)
  /\ UNCHANGED <<modCur, activeModules>>

\* a fault: Start configures and launches again although the logger is running
StartFresh_Always == TRUE

StartFresh == ~initialized

Start(p, conf) ==
  /\ pc[p] = "idle"
  /\ IF StartFresh
       THEN /\ config' = conf
            /\ uniqueMsgID' \in RandomNumbers
            /\ launchAllModules(conf)
            /\ initialized' = TRUE
            /\ UNCHANGED <<pushVars, nextRec, histVars>>
       ELSE /\ genericLogHandler(p, "start", "ERROR", NoTag, AlreadyInitializedText,
                                 SeverityError, TRUE)
            /\ UNCHANGED <<coreVars, chanVars, modVars>>
  /\ UNCHANGED <<confVars, flushVars, issued, sideVars>>

(***************************************************************************)
(* Start, statement by statement: the configuration and the ID counter are *)
(* set, launchAllModules goes through activeModules and binds one module   *)
(* per iteration, and initialized is set when the loop has ended.  The     *)
(* statements are taken in the order of the source.                        *)
(***************************************************************************)
StartCall == [op |-> "start", severity |-> 0, tag |-> NoTag, built |-> FALSE]

\* if !initialized { config = conf; uniqueMsgID = generateRandomNumber() ...
\* } else { Error(...) }
StartConfigure(p, conf) ==
  /\ pc[p] = "idle"
  /\ IF StartFresh
       THEN /\ nextChan + Len(activeModules) - 1 <= MaxChans
            /\ config' = conf
            /\ uniqueMsgID' \in RandomNumbers
            /\ launchIdx' = [launchIdx EXCEPT ![p] = 1]
            /\ call' = [call EXCEPT ![p] = StartCall]
            /\ pc' = [pc EXCEPT ![p] = "launch"]
            /\ UNCHANGED <<initialized, activeModules, msgChannels, flushChannels>>
            /\ UNCHANGED <<rec, pushList, pushIdx, retries, nextRec, ret, outcome>>
       ELSE /\ genericLogHandler(p, "start", "ERROR", NoTag, AlreadyInitializedText,
                                 SeverityError, TRUE)
            /\ UNCHANGED <<coreVars, launchIdx>>
  /\ UNCHANGED <<chanVars, modVars, confVars, flushVars, issued, diag, lost, served>>

\* one iteration of launchAllModules:
\* go c.LaunchModule(getMsgChannel(), getFlushChannel())
launchModule(p) ==
  /\ pc[p] = "launch"
  /\ launchIdx[p] <= Len(activeModules)
  /\ msgChannels' = Append(msgChannels, nextChan)
  /\ flushChannels' = Append(flushChannels, nextChan)
  /\ chanBuf' = [chanBuf EXCEPT ![nextChan] = <<>>]
  /\ chanCap' = [chanCap EXCEPT ![nextChan] = config.ChanCapacity]
  /\ modPc' = [modPc EXCEPT ![nextChan] = "launched"]
  /\ nextChan' = nextChan + 1
  /\ launchIdx' = [launchIdx EXCEPT ![p] = @ + 1]
  /\ UNCHANGED <<initialized, config, activeModules, uniqueMsgID, modCur>>
  /\ UNCHANGED <<pushVars, nextRec, histVars, confVars, flushVars, issued, diag, lost, served>>

\* a fault: initialized is set before the loop of launchAllModules has ended
LaunchDone_AtOnce(p) == TRUE

\* e == nil: the loop of launchAllModules has ended
LaunchDone(p) == launchIdx[p] > Len(activeModules)

\* initialized = true, and Start returns
StartInitialized(p) ==
  /\ pc[p] = "launch"
  /\ LaunchDone(p)
  /\ initialized' = TRUE
  /\ launchIdx' = [launchIdx EXCEPT ![p] = 0]
  /\ pc' = [pc EXCEPT ![p] = "ret"]
  /\ UNCHANGED <<config, activeModules, msgChannels, flushChannels, uniqueMsgID>>
  /\ UNCHANGED <<chanVars, modVars, rec, pushList, pushIdx, retries, nextRec, histVars>>
  /\ UNCHANGED <<confVars, flushVars, issued, diag, lost, served>>

\* Start in a behaviour in which r.Int63n(1<<14) returns n
StartSeeded(p, conf, n) ==
  /\ pc[p] = "idle"
  /\ IF StartFresh
       THEN /\ config' = conf
            /\ uniqueMsgID' = generateRandomNumber(n)
            /\ launchAllModules(conf)
            /\ initialized' = TRUE
            /\ UNCHANGED <<pushVars, nextRec, histVars>>
       ELSE /\ genericLogHandler(p, "start", "ERROR", NoTag, AlreadyInitializedText,
                                 SeverityError, TRUE)
            /\ UNCHANGED <<coreVars, chanVars, modVars>>
  /\ UNCHANGED <<confVars, flushVars, issued, sideVars>>

\* a fault: the module is appended although the logger is running
EnableModule_AlwaysAppends(p, m) ==
  /\ pc[p] = "idle"
  /\ Len(activeModules) < MaxModules
  /\ activeModules' = Append(activeModules, m)
  /\ UNCHANGED <<initialized, config, msgChannels, flushChannels, uniqueMsgID,
                 pushVars, nextRec, histVars>>
  /\ UNCHANGED <<chanVars, modVars, confVars, flushVars, issued, sideVars>>

EnableModule(p, m) ==
  /\ pc[p] = "idle"
  /\ IF initialized
       THEN /\ genericLogHandler(p, "enable", "ERROR", NoTag, CannotModifyText,
                                 SeverityError, TRUE)
            /\ UNCHANGED coreVars
       ELSE /\ Len(activeModules) < MaxModules
            /\ activeModules' = Append(activeModules, m)
            /\ UNCHANGED <<initialized, config, msgChannels, flushChannels, uniqueMsgID,
                           pushVars, nextRec, histVars>>
  /\ UNCHANGED <<chanVars, modVars, confVars, flushVars, issued, sideVars>>

ResetCall == [op |-> "reset", severity |-> 0, tag |-> NoTag, built |-> FALSE]

\* a fault: the two channel lists are left as they are
ResetState_KeepsChannels(p) ==
  /\ pc[p] = "idle"
  /\ IF initialized
       THEN /\ config' = ZeroConfig
            /\ activeModules' = <<>>
            /\ initialized' = FALSE
       ELSE UNCHANGED <<config, activeModules, initialized>>
  /\ call' = [call EXCEPT ![p] = ResetCall]
  /\ pc' = [pc EXCEPT ![p] = "ret"]
  /\ UNCHANGED <<msgChannels, flushChannels>>
  /\ UNCHANGED <<uniqueMsgID, chanVars, modVars, rec, pushList, pushIdx, retries, nextRec,
                 ret, outcome, confVars, flushVars, issued, sideVars>>

\* a variant: the state is reset whether the logger is initialized or not
ResetWanted_Always == TRUE

\* if initialized { ... }
ResetWanted == initialized

ResetState(p) ==
  /\ pc[p] = "idle"
  /\ IF ResetWanted
       THEN /\ config' = ZeroConfig
            /\ msgChannels' = <<>>
            /\ flushChannels' = <<>>
            /\ activeModules' = <<>>
            /\ initialized' = FALSE
       ELSE UNCHANGED <<config, msgChannels, flushChannels, activeModules, initialized>>
  /\ call' = [call EXCEPT ![p] = ResetCall]
  /\ pc' = [pc EXCEPT ![p] = "ret"]
  /\ UNCHANGED <<uniqueMsgID, chanVars, modVars, rec, pushList, pushIdx, retries, nextRec,
                 ret, outcome, confVars, flushVars, issued, sideVars>>

(***************************************************************************)
(* The module goroutines.                                                  *)
(***************************************************************************)
\* the goroutine of go c.LaunchModule(...) starts to run
ModuleRun(c) ==
  /\ modPc[c] = "launched"
  /\ modPc' = [modPc EXCEPT ![c] = "select"]
  /\ UNCHANGED <<coreVars, chanVars, modCur, pushVars, nextRec, histVars, confVars, flushVars, issued, sideVars>>

\* a fault: the module is given the newest record of the channel
ModuleRecv_Newest(c) ==
  /\ modPc[c] = "select"
  /\ chanBuf[c] # <<>>
  /\ modCur' = [modCur EXCEPT ![c] = chanBuf[c][Len(chanBuf[c])]]
  /\ chanBuf' = [chanBuf EXCEPT ![c] = SubSeq(@, 1, Len(@) - 1)]
  /\ modPc' = [modPc EXCEPT ![c] = "busy"]
  /\ UNCHANGED <<coreVars, chanCap, nextChan, pushVars, nextRec, histVars, confVars, flushVars, issued, sideVars>>

\* case logMsg := <-dataChan, from the buffer of the channel
ModuleRecv(c) ==
  /\ modPc[c] = "select"
  /\ chanBuf[c] # <<>>
  /\ modCur' = [modCur EXCEPT ![c] = Head(chanBuf[c])]
  /\ chanBuf' = [chanBuf EXCEPT ![c] = Tail(@)]
  /\ modPc' = [modPc EXCEPT ![c] = "busy"]
  /\ UNCHANGED <<coreVars, chanCap, nextChan, pushVars, nextRec, histVars, confVars, flushVars, issued, sideVars>>

\* conf.printMsg(logMsg, prefix), and back to the select
ModulePrint(c) ==
  /\ modPc[c] = "busy"
  /\ modCur' = [modCur EXCEPT ![c] = NoRec]
  /\ modPc' = [modPc EXCEPT ![c] = "select"]
  /\ UNCHANGED <<coreVars, chanVars, pushVars, nextRec, histVars, confVars, flushVars, issued, sideVars>>

(***************************************************************************)
(* Flush and flushHelper.  A caller in flushHelper is at "fsend" before    *)
(* the outer select, at "fsel" when it enters the inner select, and at     *)
(* "fwait" while it is parked in the inner select.  time.After starts the  *)
(* timer when the inner select is entered: a parked caller is woken by     *)
(* whichever comes first, the acknowledgment or the expiry of the timer.   *)
(***************************************************************************)
FlushCall == [op |-> "flush", severity |-> 0, tag |-> NoTag, built |-> FALSE]

\* the three return statements of flushHelper and the value each returns
ReturnSites == {"ack", "timeout", "pending"}

flushHelperValue(site) == site = "ack"

CurFlushChan(p) == flushList[p][flushIdx[p]]

\* a fault: Flush gives up at the first flushHelper that returns false
NextFlushElement_StopOnFailure(p, res) ==
  /\ flushRes' = [flushRes EXCEPT ![p] = Append(@, res)]
  /\ responseChan' = [responseChan EXCEPT ![p] = 0]
  /\ flushIdx' = [flushIdx EXCEPT ![p] = @ + 1]
  /\ pc' = [pc EXCEPT ![p] = IF flushIdx[p] < Len(flushList[p]) /\ flushHelperValue(res)
                               THEN "fsend" ELSE "ret"]

\* flushHelper returns at the site res; the loop of Flush goes on to e.Next(),
\* or Flush returns
NextFlushElement(p, res) ==
  /\ flushRes' = [flushRes EXCEPT ![p] = Append(@, res)]
  /\ responseChan' = [responseChan EXCEPT ![p] = 0]
  /\ flushIdx' = [flushIdx EXCEPT ![p] = @ + 1]
  /\ pc' = [pc EXCEPT ![p] = IF flushIdx[p] < Len(flushList[p]) THEN "fsend" ELSE "ret"]

\* the flushHelper calls that the Flush call of q has still to make
RequestsAhead(q) ==
  IF pc[q] = "fsend" THEN Len(flushList[q]) - flushIdx[q] + 1
  ELSE IF pc[q] \in {"fsel", "fwait"} THEN Len(flushList[q]) - flushIdx[q]
  ELSE 0

RECURSIVE SumAhead(_)
SumAhead(S) ==
  IF S = {} THEN 0
  ELSE LET q == CHOOSE x \in S : TRUE IN RequestsAhead(q) + SumAhead(S \ {q})

\* e := flushChannels.Front().  A Flush begins only when the behaviour has
\* response channels left for it and for the Flush calls under way.
FlushBegin(p) ==
  /\ pc[p] = "idle"
  /\ nextAck + SumAhead(Procs) + Len(flushChannels) - 1 <= MaxAcks
  /\ flushList' = [flushList EXCEPT ![p] = flushChannels]
  /\ flushIdx' = [flushIdx EXCEPT ![p] = 1]
  /\ flushRes' = [flushRes EXCEPT ![p] = <<>>]
  /\ call' = [call EXCEPT ![p] = FlushCall]
  /\ pc' = [pc EXCEPT ![p] = IF flushChannels = <<>> THEN "ret" ELSE "fsend"]
  /\ UNCHANGED <<coreVars, chanVars, modVars, confVars, issued, sideVars>>
  /\ UNCHANGED <<rec, pushList, pushIdx, retries, nextRec, ret, outcome>>
  /\ UNCHANGED <<flushBuf, ackBuf, nextAck, modRet, responseChan>>

\* a fault: the flush channel has room for a second request
FlushChanCap_Two == 1 + 1

\* make(chan chan (bool), 1)
FlushChanCap == 1

\* a fault: the request is put in place of the one that is pending
flushHelperSend_Replace(p) ==
  /\ pc[p] = "fsend"
  /\ nextAck <= MaxAcks
  /\ flushBuf' = [flushBuf EXCEPT ![CurFlushChan(p)] = <<nextAck>>]
  /\ responseChan' = [responseChan EXCEPT ![p] = nextAck]
  /\ nextAck' = nextAck + 1
  /\ pc' = [pc EXCEPT ![p] = "fsel"]
  /\ UNCHANGED <<flushIdx, flushRes>>
  /\ UNCHANGED <<coreVars, chanVars, modVars, confVars, issued, sideVars>>
  /\ UNCHANGED <<rec, pushList, pushIdx, retries, nextRec, histVars>>
  /\ UNCHANGED <<ackBuf, modRet, flushList>>

\* a fault: a plain send c <- responseChan, which waits for room in the
\* flush channel
flushHelperSend_Blocking(p) ==
  /\ pc[p] = "fsend"
  /\ Len(flushBuf[CurFlushChan(p)]) < FlushChanCap
  /\ nextAck <= MaxAcks
  /\ flushBuf' = [flushBuf EXCEPT ![CurFlushChan(p)] = Append(@, nextAck)]
  /\ responseChan' = [responseChan EXCEPT ![p] = nextAck]
  /\ nextAck' = nextAck + 1
  /\ pc' = [pc EXCEPT ![p] = "fsel"]
  /\ UNCHANGED <<flushIdx, flushRes>>
  /\ UNCHANGED <<coreVars, chanVars, modVars, confVars, issued, sideVars>>
  /\ UNCHANGED <<rec, pushList, pushIdx, retries, nextRec, histVars>>
  /\ UNCHANGED <<ackBuf, modRet, flushList>>

\* phase 1: select { case c <- responseChan: ... default: return false }
flushHelperSend(p) ==
  /\ pc[p] = "fsend"
  /\ IF Len(flushBuf[CurFlushChan(p)]) < FlushChanCap
       THEN /\ nextAck <= MaxAcks
            /\ flushBuf' = [flushBuf EXCEPT ![CurFlushChan(p)] = Append(@, nextAck)]
            /\ responseChan' = [responseChan EXCEPT ![p] = nextAck]
            /\ nextAck' = nextAck + 1
            /\ pc' = [pc EXCEPT ![p] = "fsel"]
            /\ UNCHANGED <<flushIdx, flushRes>>
       ELSE /\ NextFlushElement(p, "pending")
            /\ UNCHANGED <<flushBuf, nextAck>>
  /\ UNCHANGED <<coreVars, chanVars, modVars, confVars, issued, sideVars>>
  /\ UNCHANGED <<rec, pushList, pushIdx, retries, nextRec, histVars>>
  /\ UNCHANGED <<ackBuf, modRet, flushList>>

\* a fault: the select may take the timer although the timeout is not zero
\* and an acknowledgment is there
flushHelperSelect_TimerFirst(p) ==
  /\ pc[p] = "fsel"
  /\ IF ackBuf[responseChan[p]] # <<>>
       THEN \/ /\ ackBuf' = [ackBuf EXCEPT ![responseChan[p]] = Tail(@)]
               /\ NextFlushElement(p, "ack")
            \/ /\ NextFlushElement(p, "timeout")
               /\ UNCHANGED ackBuf
       ELSE /\ pc' = [pc EXCEPT ![p] = "fwait"]
            /\ UNCHANGED <<ackBuf, flushIdx, flushRes, responseChan>>
  /\ UNCHANGED <<coreVars, chanVars, modVars, confVars, issued, sideVars>>
  /\ UNCHANGED <<rec, pushList, pushIdx, retries, nextRec, histVars>>
  /\ UNCHANGED <<flushBuf, nextAck, modRet, flushList>>

\* phase 2, entry of the select: the timer of time.After is made and the two
\* cases are polled.  An acknowledgment that is already there is taken; with
\* FlushTimeout = 0 the timer has expired as well by then or has not, and
\* select chooses among the cases that are ready.  With nothing ready the
\* caller parks.
flushHelperSelect(p) ==
  /\ pc[p] = "fsel"
  /\ IF ackBuf[responseChan[p]] # <<>>
       THEN \/ /\ ackBuf' = [ackBuf EXCEPT ![responseChan[p]] = Tail(@)]
               /\ NextFlushElement(p, "ack")
            \/ /\ config.FlushTimeout = 0
               /\ NextFlushElement(p, "timeout")
               /\ UNCHANGED ackBuf
       ELSE /\ pc' = [pc EXCEPT ![p] = "fwait"]
            /\ UNCHANGED <<ackBuf, flushIdx, flushRes, responseChan>>
  /\ UNCHANGED <<coreVars, chanVars, modVars, confVars, issued, sideVars>>
  /\ UNCHANGED <<rec, pushList, pushIdx, retries, nextRec, histVars>>
  /\ UNCHANGED <<flushBuf, nextAck, modRet, flushList>>

\* a fault: the parked caller takes an acknowledgment from whichever response
\* channel holds one
flushHelperAck_AnyChannel(p) ==
  /\ pc[p] = "fwait"
  /\ \E a \in AckIds :
       /\ ackBuf[a] # <<>>
       /\ ackBuf' = [ackBuf EXCEPT ![a] = Tail(@)]
  /\ NextFlushElement(p, "ack")
  /\ UNCHANGED <<coreVars, chanVars, modVars, confVars, issued, sideVars>>
  /\ UNCHANGED <<rec, pushList, pushIdx, retries, nextRec, histVars>>
  /\ UNCHANGED <<flushBuf, nextAck, modRet, flushList>>

\* case <-responseChan: the parked caller is woken by the acknowledgment
flushHelperAck(p) ==
  /\ pc[p] = "fwait"
  /\ ackBuf[responseChan[p]] # <<>>
  /\ ackBuf' = [ackBuf EXCEPT ![responseChan[p]] = Tail(@)]
  /\ NextFlushElement(p, "ack")
  /\ UNCHANGED <<coreVars, chanVars, modVars, confVars, issued, sideVars>>
  /\ UNCHANGED <<rec, pushList, pushIdx, retries, nextRec, histVars>>
  /\ UNCHANGED <<flushBuf, nextAck, modRet, flushList>>

\* a fault: there is no timer
TimerExpires_Never(p) == FALSE

\* the timer of time.After expires while no acknowledgment has come
TimerExpires(p) == ackBuf[responseChan[p]] = <<>>

\* a fault: after the timeout flushHelper tries the same module once more
\* before it returns false
flushHelperTimeout_Retries(p) ==
  /\ pc[p] = "fwait"
  /\ TimerExpires(p)
  /\ NextFlushElement(p, "timeout")
  /\ flushBuf' = [flushBuf EXCEPT ![CurFlushChan(p)] =
                    IF Len(@) < FlushChanCap THEN Append(@, responseChan[p]) ELSE @]
  /\ UNCHANGED <<coreVars, chanVars, modVars, confVars, issued, sideVars>>
  /\ UNCHANGED <<rec, pushList, pushIdx, retries, nextRec, histVars>>
  /\ UNCHANGED <<ackBuf, nextAck, modRet, flushList>>

\* case <-time.After(...): the parked caller is woken by the timer
flushHelperTimeout(p) ==
  /\ pc[p] = "fwait"
  /\ TimerExpires(p)
  /\ NextFlushElement(p, "timeout")
  /\ UNCHANGED <<coreVars, chanVars, modVars, confVars, issued, sideVars>>
  /\ UNCHANGED <<rec, pushList, pushIdx, retries, nextRec, histVars>>
  /\ UNCHANGED <<flushBuf, ackBuf, nextAck, modRet, flushList>>

(***************************************************************************)
(* The flush case of a module's loop: conf.flush(dataChan, prefix), then   *)
(* ret <- true.                                                            *)
(***************************************************************************)
\* history: the records queued in the data channel c
QueuedAtRead(c) ==
  [owed |-> {chanBuf[c][i].id : i \in 1..Len(chanBuf[c])}, evicted |-> {}]

\* a fault: the request is read and left in the flush channel
ModuleFlushRecv_KeepsRequest(c) ==
  /\ modPc[c] = "select"
  /\ flushBuf[c] # <<>>
  /\ modRet' = [modRet EXCEPT ![c] = Head(flushBuf[c])]
  /\ modPc' = [modPc EXCEPT ![c] = "flush"]
  /\ served' = [served EXCEPT ![Head(flushBuf[c])] = QueuedAtRead(c)]
  /\ UNCHANGED <<coreVars, chanVars, modCur, pushVars, nextRec, histVars, confVars, issued, diag, lost, launchIdx>>
  /\ UNCHANGED <<flushBuf, ackBuf, nextAck, flushList, flushIdx, responseChan, flushRes>>

\* case ret := <-flushChan
ModuleFlushRecv(c) ==
  /\ modPc[c] = "select"
  /\ flushBuf[c] # <<>>
  /\ modRet' = [modRet EXCEPT ![c] = Head(flushBuf[c])]
  /\ flushBuf' = [flushBuf EXCEPT ![c] = Tail(@)]
  /\ modPc' = [modPc EXCEPT ![c] = "flush"]
  /\ served' = [served EXCEPT ![Head(flushBuf[c])] = QueuedAtRead(c)]
  /\ UNCHANGED <<coreVars, chanVars, modCur, pushVars, nextRec, histVars, confVars, issued, diag, lost, launchIdx>>
  /\ UNCHANGED <<ackBuf, nextAck, flushList, flushIdx, responseChan, flushRes>>

\* a fault: flush returns without reading the data channel
ModuleDrain_Skips(c) ==
  /\ modPc[c] = "flush"
  /\ modPc' = [modPc EXCEPT ![c] = "ack"]
  /\ UNCHANGED <<chanBuf, modCur>>
  /\ UNCHANGED <<coreVars, chanCap, nextChan, pushVars, nextRec, histVars, confVars>>
  /\ UNCHANGED <<flushVars, issued, sideVars>>

\* a fault: flush reads the data channel with a plain receive and waits for
\* a record when the channel is empty
ModuleDrain_Waits(c) ==
  /\ modPc[c] = "flush"
  /\ chanBuf[c] # <<>>
  /\ modCur' = [modCur EXCEPT ![c] = Head(chanBuf[c])]
  /\ chanBuf' = [chanBuf EXCEPT ![c] = Tail(@)]
  /\ modPc' = [modPc EXCEPT ![c] = "flushprint"]
  /\ served' = [served EXCEPT ![modRet[c]].owed = @ \ {Head(chanBuf[c]).id}]
  /\ UNCHANGED <<coreVars, chanCap, nextChan, pushVars, nextRec, histVars, confVars>>
  /\ UNCHANGED <<flushVars, issued, diag, lost, launchIdx>>

\* the select of flush: a record is read without waiting, or the channel is
\* found empty and flush returns
ModuleDrain(c) ==
  /\ modPc[c] = "flush"
  /\ IF chanBuf[c] # <<>>
       THEN /\ modCur' = [modCur EXCEPT ![c] = Head(chanBuf[c])]
            /\ chanBuf' = [chanBuf EXCEPT ![c] = Tail(@)]
            /\ modPc' = [modPc EXCEPT ![c] = "flushprint"]
            /\ served' = [served EXCEPT ![modRet[c]].owed = @ \ {Head(chanBuf[c]).id}]
       ELSE /\ modPc' = [modPc EXCEPT ![c] = "ack"]
            /\ UNCHANGED <<chanBuf, modCur, served>>
  /\ UNCHANGED <<coreVars, chanCap, nextChan, pushVars, nextRec, histVars, confVars>>
  /\ UNCHANGED <<flushVars, issued, diag, lost, launchIdx>>

\* conf.printMsg(logMsg, prefix) in flush, and back to its select
ModuleFlushPrint(c) ==
  /\ modPc[c] = "flushprint"
  /\ modCur' = [modCur EXCEPT ![c] = NoRec]
  /\ modPc' = [modPc EXCEPT ![c] = "flush"]
  /\ UNCHANGED <<coreVars, chanVars, pushVars, nextRec, histVars, confVars, flushVars, issued, sideVars>>

\* make(chan (bool), 1)
AckChanCap == 1

\* a fault: the module keeps the response channel and acknowledges again
ModuleAck_Twice(c) ==
  /\ modPc[c] = "ack"
  /\ Len(ackBuf[modRet[c]]) < AckChanCap
  /\ ackBuf' = [ackBuf EXCEPT ![modRet[c]] = Append(@, TRUE)]
  /\ UNCHANGED <<modRet, modPc>>
  /\ UNCHANGED <<coreVars, chanVars, modCur, pushVars, nextRec, histVars, confVars, issued, sideVars>>
  /\ UNCHANGED <<flushBuf, nextAck, flushList, flushIdx, responseChan, flushRes>>

\* ret <- true, and back to the select of the loop
ModuleAck(c) ==
  /\ modPc[c] = "ack"
  /\ Len(ackBuf[modRet[c]]) < AckChanCap
  /\ ackBuf' = [ackBuf EXCEPT ![modRet[c]] = Append(@, TRUE)]
  /\ modRet' = [modRet EXCEPT ![c] = 0]
  /\ modPc' = [modPc EXCEPT ![c] = "select"]
  /\ UNCHANGED <<coreVars, chanVars, modCur, pushVars, nextRec, histVars, confVars, issued, sideVars>>
  /\ UNCHANGED <<flushBuf, nextAck, flushList, flushIdx, responseChan, flushRes>>

(***************************************************************************)
(* GenerateID.  fmt.Sprintf("%x", id) is the sequence of the hexadecimal    *)
(* digits of id.  The counter is a uint64; the values of the model stay    *)
(* far below 2^64, so the addition does not wrap.                          *)
(***************************************************************************)
HexDigits == <<"0", "1", "2", "3", "4", "5", "6", "7", "8", "9", "a", "b", "c", "d", "e", "f">>

RECURSIVE Sprintf_x(_)
Sprintf_x(n) ==
  IF n < 16 THEN <<HexDigits[n + 1]>>
            ELSE Append(Sprintf_x(n \div 16), HexDigits[(n % 16) + 1])

\* id := atomic.AddUint64(&uniqueMsgID, 1); return fmt.Sprintf("%x", id)
GenerateID(p) ==
  /\ pc[p] = "idle"
  /\ Len(issued) < MaxIds
  /\ uniqueMsgID' = uniqueMsgID + 1
  /\ issued' = Append(issued, Sprintf_x(uniqueMsgID + 1))
  /\ UNCHANGED <<initialized, config, activeModules, msgChannels, flushChannels>>
  /\ UNCHANGED <<chanVars, modVars, pushVars, nextRec, histVars, confVars, flushVars, sideVars>>

(***************************************************************************)
(* The program of the main specification: goroutines that log, start,      *)
(* enable modules and reset, with the configurations of StartConfigs.      *)
(***************************************************************************)
DenyExceptA == DisableTagsExcept(GetDefaultConfig, <<"a">>)

StartConfigs ==
  {[GetDefaultConfig EXCEPT !.ChanCapacity = n] : n \in 0..MaxCap}
    \cup {[DenyExceptA EXCEPT !.ChanCapacity = 1],
          [GetDefaultConfig EXCEPT !.ChanCapacity = 1, !.Severity = SeverityFatal]}

\* the goroutine that starts, configures and resets the logger
MainProc == 1

MainApi == {"Error", "Debug"}
MainTags == {NoTag}

Next ==
  \/ \E p \in Procs, fn \in MainApi, tag \in MainTags : LogCall(p, fn, tag)
  \/ \E p \in Procs : PushBegin(p)
  \/ \E p \in Procs : SendAttempt(p)
  \/ \E p \in Procs : Evict(p)
  \/ \E p \in Procs : Return(p)
  \/ \E conf \in StartConfigs : Start(MainProc, conf)
  \/ \E m \in ModuleKinds : EnableModule(MainProc, m)
  \/ \E c \in ChanIds : ModuleRun(c)
  \/ \E c \in ChanIds : ModuleRecv(c)
  \/ \E c \in ChanIds : ModulePrint(c)

Spec == Init /\ [][Next]_vars

(***************************************************************************)
(* The program of the filter specification: one goroutine that builds a    *)
(* configuration with the configuration methods while the logger is not    *)
(* started, starts the logger with it (no module enabled), calls every API *)
(* function with every tag, and resets the logger.                         *)
(***************************************************************************)
TagSlices == UNION {[1..n -> Tags] : n \in 0..MaxTags}

\* conf := GetDefaultConfig()
ConfNew ==
  /\ ~initialized
  /\ userConf' = GetDefaultConfig
  /\ confCall' = [mode |-> "none", tags |-> <<>>]
  /\ UNCHANGED <<coreVars, chanVars, modVars, pushVars, nextRec, histVars, flushVars, issued, sideVars>>

\* conf.Severity = severity
ConfSetSeverity(severity) ==
  /\ ~initialized
  /\ userConf' = [userConf EXCEPT !.Severity = severity]
  /\ UNCHANGED <<confCall, coreVars, chanVars, modVars, pushVars, nextRec, histVars,
               flushVars, issued, sideVars>>

ConfEnableTagsExcept(tags) ==
  /\ ~initialized
  /\ userConf' = EnableTagsExcept(userConf, tags)
  /\ confCall' = [mode |-> "enable", tags |-> tags]
  /\ UNCHANGED <<coreVars, chanVars, modVars, pushVars, nextRec, histVars, flushVars, issued, sideVars>>

ConfDisableTagsExcept(tags) ==
  /\ ~initialized
  /\ userConf' = DisableTagsExcept(userConf, tags)
  /\ confCall' = [mode |-> "disable", tags |-> tags]
  /\ UNCHANGED <<coreVars, chanVars, modVars, pushVars, nextRec, histVars, flushVars, issued, sideVars>>

StartUser(p) == Start(p, userConf)

NextFilter ==
  \/ ConfNew
  \/ \E severity \in Severities : ConfSetSeverity(severity)
  \/ \E tags \in TagSlices : ConfEnableTagsExcept(tags)
  \/ \E tags \in TagSlices : ConfDisableTagsExcept(tags)
  \/ StartUser(MainProc)
  \/ \E fn \in ApiNames, tag \in Tags : LogCall(MainProc, fn, tag)
  \/ PushBegin(MainProc)
  \/ Return(MainProc)
  \/ ResetState(MainProc)

SpecFilter == Init /\ [][NextFilter]_vars

(***************************************************************************)
(* The program of the solo specification: one goroutine uses the logger    *)
(* and no module goroutine ever runs, so that nobody reads a channel.      *)
(***************************************************************************)
NextSolo ==
  \/ \E fn \in MainApi, tag \in MainTags : LogCall(MainProc, fn, tag)
  \/ PushBegin(MainProc)
  \/ SendAttempt(MainProc)
  \/ Evict(MainProc)
  \/ Return(MainProc)
  \/ \E conf \in StartConfigs : Start(MainProc, conf)
  \/ \E m \in ModuleKinds : EnableModule(MainProc, m)

SpecSolo == Init /\ [][NextSolo]_vars

(***************************************************************************)
(* The program of the flush specification: one goroutine enables modules,  *)
(* starts the logger, logs and calls Flush; the module goroutines run      *)
(* their loops, and may stall at any point.                                *)
(***************************************************************************)
FlushTimeouts == {0, GetDefaultConfig.FlushTimeout}

FlushConfigs ==
  {[GetDefaultConfig EXCEPT !.ChanCapacity = 1, !.FlushTimeout = t] : t \in FlushTimeouts}

FlushApi == {"Error"}

NextFlush ==
  \/ \E fn \in FlushApi : LogCall(MainProc, fn, NoTag)
  \/ PushBegin(MainProc)
  \/ SendAttempt(MainProc)
  \/ Evict(MainProc)
  \/ Return(MainProc)
  \/ \E conf \in FlushConfigs : Start(MainProc, conf)
  \/ \E m \in ModuleKinds : EnableModule(MainProc, m)
  \/ FlushBegin(MainProc)
  \/ flushHelperSend(MainProc)
  \/ flushHelperSelect(MainProc)
  \/ flushHelperAck(MainProc)
  \/ flushHelperTimeout(MainProc)
  \/ \E c \in ChanIds : ModuleRun(c)
  \/ \E c \in ChanIds : ModuleRecv(c)
  \/ \E c \in ChanIds : ModulePrint(c)
  \/ \E c \in ChanIds : ModuleFlushRecv(c)
  \/ \E c \in ChanIds : ModuleDrain(c)
  \/ \E c \in ChanIds : ModuleFlushPrint(c)
  \/ \E c \in ChanIds : ModuleAck(c)

SpecFlush == Init /\ [][NextFlush]_vars

\* the goroutine that called Flush is scheduled, and the timer of time.After
\* expires; nothing is assumed of the module goroutines
FlushCaller(p) ==
  flushHelperSend(p) \/ flushHelperSelect(p) \/ flushHelperAck(p) \/ flushHelperTimeout(p)

SpecFlushFair == SpecFlush /\ WF_vars(FlushCaller(MainProc))

(***************************************************************************)
(* The program of the specification of a Flush that runs while another     *)
(* goroutine logs: the main goroutine enables modules, starts the logger   *)
(* and calls Flush; a worker goroutine logs meanwhile.                     *)
(***************************************************************************)
Worker == 2

LogWhileFlushConfigs == {[GetDefaultConfig EXCEPT !.ChanCapacity = 1]}

NextLogWhileFlush ==
  \/ \E fn \in FlushApi : LogCall(Worker, fn, NoTag)
  \/ PushBegin(Worker)
  \/ SendAttempt(Worker)
  \/ Evict(Worker)
  \/ \E p \in {MainProc, Worker} : Return(p)
  \/ \E conf \in LogWhileFlushConfigs : Start(MainProc, conf)
  \/ \E m \in ModuleKinds : EnableModule(MainProc, m)
  \/ FlushBegin(MainProc)
  \/ flushHelperSend(MainProc)
  \/ flushHelperSelect(MainProc)
  \/ flushHelperAck(MainProc)
  \/ flushHelperTimeout(MainProc)
  \/ \E c \in ChanIds : ModuleRun(c)
  \/ \E c \in ChanIds : ModuleRecv(c)
  \/ \E c \in ChanIds : ModulePrint(c)
  \/ \E c \in ChanIds : ModuleFlushRecv(c)
  \/ \E c \in ChanIds : ModuleDrain(c)
  \/ \E c \in ChanIds : ModuleFlushPrint(c)
  \/ \E c \in ChanIds : ModuleAck(c)

SpecLogWhileFlush == Init /\ [][NextLogWhileFlush]_vars

\* the goroutine of a module is scheduled as long as a case of the select it
\* is at is ready: for { select { case logMsg := <-dataChan ... } }
ModuleLoop(c) ==
  \/ ModuleRun(c) \/ ModuleRecv(c) \/ ModulePrint(c)
  \/ ModuleFlushRecv(c) \/ ModuleDrain(c) \/ ModuleFlushPrint(c) \/ ModuleAck(c)

SpecLogWhileFlushFair ==
  SpecLogWhileFlush /\ \A c \in ChanIds : WF_vars(ModuleLoop(c))

(***************************************************************************)
(* The program of the specification of concurrent Flush calls: the main    *)
(* goroutine enables modules and starts the logger, and every goroutine    *)
(* calls Flush again and again.  The logger is started once and nothing is *)
(* logged, so the modules find their data channels empty.                  *)
(***************************************************************************)
NextFlushers ==
  \/ \E conf \in FlushConfigs : ~initialized /\ Start(MainProc, conf)
  \/ \E m \in ModuleKinds : ~initialized /\ EnableModule(MainProc, m)
  \/ \E p \in Procs : Return(p)
  \/ \E p \in Procs : FlushBegin(p)
  \/ \E p \in Procs : flushHelperSend(p)
  \/ \E p \in Procs : flushHelperSelect(p)
  \/ \E p \in Procs : flushHelperAck(p)
  \/ \E p \in Procs : flushHelperTimeout(p)
  \/ \E c \in ChanIds : ModuleRun(c)
  \/ \E c \in ChanIds : ModuleFlushRecv(c)
  \/ \E c \in ChanIds : ModuleDrain(c)
  \/ \E c \in ChanIds : ModuleAck(c)

SpecFlushers == Init /\ [][NextFlushers]_vars

\* every goroutine that called Flush is scheduled, and its timer expires;
\* nothing is assumed of the module goroutines
SpecFlushersFair == SpecFlushers /\ \A p \in Procs : WF_vars(FlushCaller(p))

(***************************************************************************)
(* The program of the specification of Start taken statement by statement: *)
(* the main goroutine enables modules, starts the logger, calls Flush and  *)
(* resets; a worker goroutine logs meanwhile, also while Start is at work. *)
(***************************************************************************)
StepConfigs == {[GetDefaultConfig EXCEPT !.ChanCapacity = 1, !.FlushTimeout = 0]}

NextStartSteps ==
  \/ \E fn \in FlushApi : LogCall(Worker, fn, NoTag)
  \/ \E p \in {MainProc, Worker} : PushBegin(p)
  \/ \E p \in {MainProc, Worker} : SendAttempt(p)
  \/ \E p \in {MainProc, Worker} : Evict(p)
  \/ \E p \in {MainProc, Worker} : Return(p)
  \/ \E conf \in StepConfigs : StartConfigure(MainProc, conf)
  \/ launchModule(MainProc)
  \/ StartInitialized(MainProc)
  \/ \E m \in ModuleKinds : EnableModule(MainProc, m)
  \/ ResetState(MainProc)
  \/ FlushBegin(MainProc)
  \/ flushHelperSend(MainProc)
  \/ flushHelperSelect(MainProc)
  \/ flushHelperTimeout(MainProc)
  \/ \E c \in ChanIds : ModuleRun(c)
  \/ \E c \in ChanIds : ModuleRecv(c)
  \/ \E c \in ChanIds : ModulePrint(c)

SpecStartSteps == Init /\ [][NextStartSteps]_vars

(***************************************************************************)
(* The program of the restart specification, the use that the tests make   *)
(* of ResetState: one goroutine enables modules, starts the logger, logs,  *)
(* calls Flush, resets, and does it all again; the module goroutines of    *)
(* every Start run their loops.                                            *)
(***************************************************************************)
NextRestart ==
  \/ \E fn \in FlushApi : LogCall(MainProc, fn, NoTag)
  \/ PushBegin(MainProc)
  \/ SendAttempt(MainProc)
  \/ Evict(MainProc)
  \/ Return(MainProc)
  \/ \E conf \in LogWhileFlushConfigs : ~initialized /\ Start(MainProc, conf)
  \/ \E m \in ModuleKinds : ~initialized /\ EnableModule(MainProc, m)
  \/ ResetState(MainProc)
  \/ FlushBegin(MainProc)
  \/ flushHelperSend(MainProc)
  \/ flushHelperSelect(MainProc)
  \/ flushHelperAck(MainProc)
  \/ flushHelperTimeout(MainProc)
  \/ \E c \in ChanIds : ModuleRun(c)
  \/ \E c \in ChanIds : ModuleRecv(c)
  \/ \E c \in ChanIds : ModulePrint(c)
  \/ \E c \in ChanIds : ModuleFlushRecv(c)
  \/ \E c \in ChanIds : ModuleDrain(c)
  \/ \E c \in ChanIds : ModuleFlushPrint(c)
  \/ \E c \in ChanIds : ModuleAck(c)

SpecRestart == Init /\ [][NextRestart]_vars

(***************************************************************************)
(* The program of the call-site specification: the main goroutine enables  *)
(* modules, starts the logger and logs from call sites that the runtime    *)
(* resolves; every goroutine logs from call sites that it does not         *)
(* resolve; the modules run their loops.                                   *)
(***************************************************************************)
CallSiteConfigs == {[GetDefaultConfig EXCEPT !.ChanCapacity = 1]}

CallSiteApi == {"Error", "Info"}

NextCallSite ==
  \/ \E fn \in CallSiteApi : LogCall(MainProc, fn, NoTag)
  \/ \E p \in Procs, fn \in CallSiteApi : LogCallUnresolved(p, fn, NoTag)
  \/ \E p \in Procs : PushBegin(p)
  \/ \E p \in Procs : SendAttempt(p)
  \/ \E p \in Procs : Evict(p)
  \/ \E p \in Procs : Return(p)
  \/ \E conf \in CallSiteConfigs : ~initialized /\ Start(MainProc, conf)
  \/ \E m \in ModuleKinds : ~initialized /\ EnableModule(MainProc, m)
  \/ \E c \in ChanIds : ModuleRun(c)
  \/ \E c \in ChanIds : ModuleRecv(c)
  \/ \E c \in ChanIds : ModulePrint(c)

SpecCallSite == Init /\ [][NextCallSite]_vars

(***************************************************************************)
(* The program of the ID specification: the main goroutine starts the      *)
(* logger, resets it and starts it again; once the logger has been started *)
(* for the first time, the goroutines call GenerateID.                     *)
(***************************************************************************)
NextIds ==
  \/ \E n \in Int63nValues : ~initialized /\ StartSeeded(MainProc, GetDefaultConfig, n)
  \/ ResetState(MainProc)
  \/ Return(MainProc)
  \/ \E p \in Procs : uniqueMsgID # 0 /\ GenerateID(p)

SpecIds == Init /\ [][NextIds]_vars

(***************************************************************************)
(* The program of the lifecycle specification: the main goroutine enables  *)
(* modules, starts and resets the logger again and again, and logs;        *)
(* goroutines call GenerateID meanwhile.                                   *)
(***************************************************************************)
LifeConfigs == {[GetDefaultConfig EXCEPT !.ChanCapacity = n] : n \in 1..MaxCap}

NextLife ==
  \/ \E p \in Procs : GenerateID(p)
  \/ \E conf \in LifeConfigs : Start(MainProc, conf)
  \/ \E m \in ModuleKinds : EnableModule(MainProc, m)
  \/ ResetState(MainProc)
  \/ PushBegin(MainProc)
  \/ SendAttempt(MainProc)
  \/ Evict(MainProc)
  \/ Return(MainProc)
  \/ \E c \in ChanIds : ModuleRun(c)

SpecLife == Init /\ [][NextLife]_vars

(***************************************************************************)
(* The program of the configuration specification: one goroutine keeps an  *)
(* RlogConfig value, calls the configuration methods on it and assigns its *)
(* ChanCapacity whether the logger is started or not, starts the logger    *)
(* with it, logs, and resets.  A panic of SeverityFromString is recovered  *)
(* by the program, which goes on.                                          *)
(***************************************************************************)
SeverityStrings ==
  { <<"f", "a", "t", "a", "l">>, <<"F", "A", "T", "A", "L">>,
    <<"e", "r", "r", "o", "r">>, <<"E", "r", "r", "o", "r">>,
    <<"w", "a", "r", "n", "i", "n", "g">>, <<"W", "a", "R", "n", "I", "n", "G">>,
    <<"i", "n", "f", "o">>, <<"I", "N", "F", "O">>,
    <<"d", "e", "b", "u", "g">>, <<"D", "e", "b", "u", "g">>,
    <<>>, <<"w", "a", "r", "n">>, <<"i", "n", "f", "o", "s">>, <<" ", "i", "n", "f", "o">>,
    <<"t", "r", "a", "c", "e">>, <<CapitalIWithDot, "N", "F", "O">> }

UserTagSlices == {<<>>, <<"a">>}

UserCapacities == {1, GetDefaultConfig.ChanCapacity}

UserApi == {"Error", "Debug"}

\* conf.SeverityFromString(value), with recover()
UserSeverityFromString(value) ==
  /\ userConf' = SeverityFromString(userConf, value)
  /\ confCall' = [mode |-> IF SeverityFromStringPanics(value) THEN "panic" ELSE "severity",
                  tags |-> <<>>, value |-> value]
  /\ UNCHANGED <<coreVars, chanVars, modVars, pushVars, nextRec, histVars, flushVars, issued, sideVars>>

\* a fault: the logger kept a reference to the configuration it was started with
UserEnableTagsExcept_Shared(tags) ==
  /\ userConf' = EnableTagsExcept(userConf, tags)
  /\ confCall' = [mode |-> "enable", tags |-> tags]
  /\ config' = IF initialized THEN EnableTagsExcept(config, tags) ELSE config
  /\ UNCHANGED <<initialized, activeModules, msgChannels, flushChannels, uniqueMsgID>>
  /\ UNCHANGED <<chanVars, modVars, pushVars, nextRec, histVars, flushVars, issued, sideVars>>

\* conf.EnableTagsExcept(tags): Start copied the value, the method gives the
\* receiver a new map
UserEnableTagsExcept(tags) ==
  /\ userConf' = EnableTagsExcept(userConf, tags)
  /\ confCall' = [mode |-> "enable", tags |-> tags]
  /\ UNCHANGED config
  /\ UNCHANGED <<initialized, activeModules, msgChannels, flushChannels, uniqueMsgID>>
  /\ UNCHANGED <<chanVars, modVars, pushVars, nextRec, histVars, flushVars, issued, sideVars>>

\* conf.DisableTagsExcept(tags)
UserDisableTagsExcept(tags) ==
  /\ userConf' = DisableTagsExcept(userConf, tags)
  /\ confCall' = [mode |-> "disable", tags |-> tags]
  /\ UNCHANGED <<coreVars, chanVars, modVars, pushVars, nextRec, histVars, flushVars, issued, sideVars>>

\* conf.ChanCapacity = n
UserSetCapacity(n) ==
  /\ userConf' = [userConf EXCEPT !.ChanCapacity = n]
  /\ UNCHANGED <<confCall, coreVars, chanVars, modVars, pushVars, nextRec, histVars,
               flushVars, issued, sideVars>>

\* the strings the program of the configuration specification passes
ConfigSeverityStrings ==
  { <<"f", "a", "t", "a", "l">>, <<"D", "e", "b", "u", "g">>, <<"w", "a", "r", "n">> }

NextConfig ==
  \/ \E value \in ConfigSeverityStrings : UserSeverityFromString(value)
  \/ \E tags \in UserTagSlices : UserEnableTagsExcept(tags)
  \/ \E tags \in UserTagSlices : UserDisableTagsExcept(tags)
  \/ \E n \in UserCapacities : UserSetCapacity(n)
  \/ StartUser(MainProc)
  \/ \E fn \in UserApi, tag \in {NoTag, "a"} : LogCall(MainProc, fn, tag)
  \/ PushBegin(MainProc)
  \/ Return(MainProc)
  \/ ResetState(MainProc)

SpecConfig == Init /\ [][NextConfig]_vars

(***************************************************************************)
(* The program of the severity specification: SeverityFromString is called *)
(* with every string of SeverityStrings on a configuration value of any    *)
(* threshold and capacity; the logger is never started.                    *)
(***************************************************************************)
NextSeverity ==
  \/ \E value \in SeverityStrings : UserSeverityFromString(value)
  \/ \E severity \in Severities : ConfSetSeverity(severity)
  \/ \E n \in UserCapacities : UserSetCapacity(n)
  \/ ConfNew

SpecSeverity == Init /\ [][NextSeverity]_vars

(***************************************************************************)
(* The program of the order specification: the main goroutine enables      *)
(* modules, starts the logger and logs errors, the other goroutines log    *)
(* with a severity of their own each, and the modules read.  Who built a   *)
(* record is seen from its severity.                                       *)
(***************************************************************************)
FifoConfigs ==
  {[GetDefaultConfig EXCEPT !.ChanCapacity = n, !.Severity = SeverityDebug] : n \in 1..MaxCap}

\* every goroutine logs with an API function of its own
FifoApis == <<"Error", "Debug", "Warning", "Info", "Fatal">>

FifoApi(p) == FifoApis[p]

NextFifo ==
  \/ \E p \in Procs : LogCall(p, FifoApi(p), NoTag)
  \/ \E p \in Procs : PushBegin(p)
  \/ \E p \in Procs : SendAttempt(p)
  \/ \E p \in Procs : Evict(p)
  \/ \E p \in Procs : Return(p)
  \/ \E conf \in FifoConfigs : Start(MainProc, conf)
  \/ \E m \in ModuleKinds : EnableModule(MainProc, m)
  \/ \E c \in ChanIds : ModuleRun(c)
  \/ \E c \in ChanIds : ModuleRecv(c)
  \/ \E c \in ChanIds : ModulePrint(c)

SpecFifo == Init /\ [][NextFifo]_vars

(***************************************************************************)
(* The program of the eviction specification: the logger is started with   *)
(* one module and a channel of capacity 1, and two goroutines log errors   *)
(* while the module reads.                                                 *)
(***************************************************************************)
EvictConfigs == {[GetDefaultConfig EXCEPT !.ChanCapacity = 1]}

EvictApi == {"Error"}

NextEvict ==
  \/ \E p \in Procs, fn \in EvictApi : LogCallUpTo(MaxEvictRecs, p, fn, NoTag)
  \/ \E p \in Procs : PushBegin(p)
  \/ \E p \in Procs : SendAttempt(p)
  \/ \E p \in Procs : Evict(p)
  \/ \E p \in Procs : Return(p)
  \/ \E conf \in EvictConfigs : ~initialized /\ Start(MainProc, conf)
  \/ \E m \in ModuleKinds : activeModules = <<>> /\ ~initialized /\ EnableModule(MainProc, m)
  \/ \E c \in ChanIds : ModuleRun(c)
  \/ \E c \in ChanIds : ModuleRecv(c)
  \/ \E c \in ChanIds : ModulePrint(c)

SpecEvict == Init /\ [][NextEvict]_vars

(***************************************************************************)
(* Notions the properties are stated with.                                 *)
(***************************************************************************)
Ids(buf) == [i \in 1..Len(buf) |-> buf[i].id]

Occurrences(buf, r) == Cardinality({i \in 1..Len(buf) : buf[i] = r})

\* the levels from the most severe to the least severe
SeverityOrder ==
  <<SeverityFatal, SeverityError, SeverityWarning, SeverityInfo, SeverityDebug>>

OrderPos(s) == CHOOSE i \in 1..Len(SeverityOrder) : SeverityOrder[i] = s

LessSevere(s, t) == OrderPos(s) > OrderPos(t)

Pushing(p) == pc[p] \in {"push", "send", "evict"}

\* process p takes a step of its pushToChannels loop
PushStep(p) == pc'[p] # pc[p] \/ pushIdx'[p] # pushIdx[p] \/ retries'[p] # retries[p]

\* the place of p in its call: it only grows until the call returns
Progress(p) ==
  (2 * 3 + 1) * pushIdx[p] + 2 * retries[p] + (IF pc[p] = "evict" THEN 1 ELSE 0)

(***************************************************************************)
(* C1.  In the Running state a logging call makes at most 3 non-blocking   *)
(* send attempts on each channel of the list it iterates and never waits:  *)
(* whatever the other callers and the modules do, its next step can be     *)
(* taken, and every step it takes moves it forward in the list or in the   *)
(* retries, so that the call returns after a bounded number of its steps.  *)
(***************************************************************************)
C1_AttemptsBounded ==
  \A p \in Procs :
    /\ pc[p] = "send" => retries[p] + 1 <= 3 /\ ENABLED SendAttempt(p)
    /\ pc[p] = "evict" => retries[p] + 1 <= 3 /\ ENABLED Evict(p)
    /\ pc[p] = "push" => ENABLED PushBegin(p)
    /\ Pushing(p) => Progress(p) <= (2 * 3 + 1) * (Len(msgChannels) + 1)

C1_StepAdvances ==
  \A p \in Procs :
    (pc[p] \in {"send", "evict"} /\ PushStep(p)) =>
      \/ pc'[p] = "ret" /\ ret'[p] = "true"
      \/ pc'[p] \in {"send", "evict"} /\ Progress(p)' > Progress(p)

C1_BoundedNonBlockingPush == []C1_AttemptsBounded /\ [][C1_StepAdvances]_vars

\* a call has returned after it gave up on a channel
C1_Witness ==
  \E p \in Procs :
    /\ pc[p] = "ret" /\ call[p].built /\ initialized
    /\ Len(pushList[p]) > 0 /\ Len(outcome[p]) < Len(pushList[p])

(***************************************************************************)
(* C2.  When one caller alone has pushed n records one after another into  *)
(* a channel of capacity c >= 1 that nobody reads, and n > c, the channel  *)
(* holds exactly the c records pushed last, in the order of their pushes.  *)
(* (Under SpecSolo the record with id k is the k-th record pushed.)        *)
(***************************************************************************)
C2_KeepsMostRecent ==
  \A c \in Range(msgChannels) :
    (pc[MainProc] \in {"idle", "ret"} /\ chanCap[c] >= 1 /\ nextRec - 1 > chanCap[c]) =>
      Ids(chanBuf[c]) = [i \in 1..chanCap[c] |-> (nextRec - 1) - chanCap[c] + i]

\* three records pushed into a channel of capacity 2
C2_Witness ==
  \E c \in Range(msgChannels) :
    /\ pc[MainProc] = "ret" /\ nextRec - 1 = 3 /\ chanCap[c] = 2
    /\ Ids(chanBuf[c]) = <<2, 3>>

(***************************************************************************)
(* C3.  A send attempt of pushToChannels on a channel that has a free slot *)
(* adds the record of the call, once, at the end of that channel and       *)
(* changes no other channel; the record of a call is never twice in a      *)
(* channel, is in no channel outside the list the call iterates, and when  *)
(* the call returns after it found a free slot on each of the k channels,  *)
(* each of them has got the record exactly once.                           *)
(***************************************************************************)
C3_SendStep ==
  \A p \in Procs :
    (pc[p] = "send" /\ PushStep(p) /\ CanSend(CurChan(p)) /\ chanCap[CurChan(p)] > 0) =>
      /\ chanBuf'[CurChan(p)] = Append(chanBuf[CurChan(p)], rec[p])
      /\ \A d \in ChanIds \ {CurChan(p)} : chanBuf'[d] = chanBuf[d]
      /\ outcome'[p] = Append(outcome[p], CurChan(p))
      /\ modCur' = modCur

C3_OncePerChannel ==
  \A p \in Procs :
    (Pushing(p) \/ pc[p] = "ret") /\ call[p].built =>
      /\ \A i, j \in 1..Len(outcome[p]) : outcome[p][i] = outcome[p][j] => i = j
      /\ Range(outcome[p]) \subseteq Range(pushList[p])
      /\ \A c \in ChanIds :
           /\ Occurrences(chanBuf[c], rec[p]) + (IF modCur[c] = rec[p] THEN 1 ELSE 0) <= 1
           /\ c \notin Range(outcome[p]) =>
                Occurrences(chanBuf[c], rec[p]) = 0 /\ modCur[c] # rec[p]

C3_ExactlyOncePerChannel == []C3_OncePerChannel /\ [][C3_SendStep]_vars

\* a call has returned, two channels are registered and each holds its record last
C3_Witness ==
  \E p \in Procs :
    /\ pc[p] = "ret" /\ call[p].built /\ Len(pushList[p]) = 2
    /\ outcome[p] = pushList[p]
    /\ \A c \in Range(pushList[p]) :
         chanBuf[c] # <<>> /\ chanBuf[c][Len(chanBuf[c])] = rec[p]

(***************************************************************************)
(* C4.  Whatever happened on the channels visited before, every channel    *)
(* of the list gets its turn before the call returns, and a channel that   *)
(* can take the record when its turn comes receives it.                    *)
(***************************************************************************)
C4_EveryChannelVisited ==
  \A p \in Procs :
    (pc[p] = "ret" /\ call[p].built) => pushIdx[p] = Len(pushList[p]) + 1

C4_TurnDelivers ==
  \A p \in Procs :
    (pc[p] = "send" /\ retries[p] = 0 /\ PushStep(p) /\ CanSend(CurChan(p))) =>
      /\ CurChan(p) \in Range(outcome'[p])
      /\ \/ chanBuf'[CurChan(p)] = Append(chanBuf[CurChan(p)], rec[p])
         \/ chanCap[CurChan(p)] = 0 /\ modCur'[CurChan(p)] = rec[p]

C4_Isolation == []C4_EveryChannelVisited /\ [][C4_TurnDelivers]_vars

\* the first channel did not take the record, the second one did
C4_Witness ==
  \E p \in Procs :
    /\ pc[p] = "ret" /\ call[p].built /\ Len(pushList[p]) = 2
    /\ outcome[p] = <<pushList[p][2]>>

(***************************************************************************)
(* C5.  For every severity S and every threshold T of the five levels,     *)
(* isFilteredSeverity(S) is true exactly when S is strictly less severe    *)
(* than T; a logging call whose severity is less severe than the threshold *)
(* builds no record, and one whose severity equals the threshold is not    *)
(* dropped for its severity.                                               *)
(***************************************************************************)
C5_SeverityFilter ==
  /\ config.Severity \in Severities
  /\ \A s \in Severities : isFilteredSeverity(s) <=> LessSevere(s, config.Severity)
  /\ \A p \in Procs :
       (pc[p] \in {"push", "ret"} /\ call[p].op = "log" /\ ret[p] # "false") =>
         /\ LessSevere(call[p].severity, config.Severity) => ~call[p].built
         /\ (call[p].severity = config.Severity /\ ~isFilteredTag(call[p].tag)) =>
              call[p].built

\* a Warning call under the threshold Warning has built its record
C5_Witness ==
  \E p \in Procs :
    /\ pc[p] = "ret" /\ call[p].op = "log" /\ call[p].built
    /\ call[p].severity = SeverityWarning /\ config.Severity = SeverityWarning

C7_UntaggedNeverDropped ==
  \A p \in Procs :
    (pc[p] \in {"push", "ret"} /\ call[p].op = "log" /\ call[p].tag = NoTag
       /\ ret[p] # "false" /\ ~isFilteredSeverity(call[p].severity)) =>
      call[p].built

(***************************************************************************)
(* C7, amended.  The untagged API functions pass the empty tag, which the  *)
(* tag filter treats like any other tag: the call is dropped by the tag    *)
(* filter exactly when the allow-except set holds the empty tag or a       *)
(* deny-except set is configured that does not hold it; with no tag mode   *)
(* it is never dropped.                                                    *)
(***************************************************************************)
UntaggedDropped ==
  \/ confCall.mode = "enable" /\ NoTag \in Range(confCall.tags)
  \/ confCall.mode = "disable" /\ NoTag \notin Range(confCall.tags)

C7_UntaggedLikeAnyTag ==
  initialized =>
    /\ isFilteredTag(NoTag) <=> UntaggedDropped
    /\ \A p \in Procs :
         (pc[p] \in {"push", "ret"} /\ call[p].op = "log" /\ call[p].tag = NoTag
            /\ ret[p] # "false" /\ ~isFilteredSeverity(call[p].severity)) =>
           (call[p].built <=> ~UntaggedDropped)

\* with DisableTagsExcept({a}) an untagged call was dropped
C7_Witness ==
  \E p \in Procs :
    /\ initialized /\ confCall = [mode |-> "disable", tags |-> <<"a">>]
    /\ pc[p] = "ret" /\ call[p].op = "log" /\ call[p].tag = NoTag /\ ret[p] = "true"
    /\ ~call[p].built /\ ~isFilteredSeverity(call[p].severity)

(***************************************************************************)
(* C8.  After any sequence of EnableTagsExcept and DisableTagsExcept calls *)
(* on a configuration at most one of its two tag sets is non-nil: the one  *)
(* of the last call, holding exactly the tags of that call.                *)
(***************************************************************************)
C8_TagModesExclusive ==
  /\ userConf.tagsEnabledExcept = NilMap \/ userConf.tagsDisabledExcept = NilMap
  /\ confCall.mode = "enable" =>
       /\ userConf.tagsEnabledExcept = <<Range(confCall.tags)>>
       /\ userConf.tagsDisabledExcept = NilMap
  /\ confCall.mode = "disable" =>
       /\ userConf.tagsDisabledExcept = <<Range(confCall.tags)>>
       /\ userConf.tagsEnabledExcept = NilMap
  /\ confCall.mode = "none" =>
       userConf.tagsEnabledExcept = NilMap /\ userConf.tagsDisabledExcept = NilMap

\* the last call was EnableTagsExcept with a slice that names a tag twice
C8_Witness ==
  /\ confCall = [mode |-> "enable", tags |-> <<"b", "b">>]
  /\ userConf.tagsEnabledExcept = <<{"b"}>>
  /\ userConf.tagsDisabledExcept = NilMap

(***************************************************************************)
(* C9.  A logging call made while initialized is false returns false,      *)
(* constructs no record, pushes nothing into any channel and leaves the    *)
(* configuration, the three registries and initialized as they were; the   *)
(* call is over at once, so that nothing of it is left for a later Start:  *)
(* while the logger is not started no caller holds a record and every      *)
(* channel is empty.                                                       *)
(***************************************************************************)
C9_NothingPending ==
  ~initialized =>
    /\ \A p \in Procs : pc[p] \in {"idle", "ret"} /\ rec[p] = NoRec
    /\ \A p \in Procs : pc[p] = "ret" => ret[p] = "false" /\ ~call[p].built
    /\ \A c \in ChanIds : chanBuf[c] = <<>> /\ modCur[c] = NoRec

C9_CallBeforeStart ==
  \A p \in Procs, fn \in ApiNames, tag \in Tags :
    (LogCall(p, fn, tag) /\ ~initialized) =>
      /\ ret'[p] = "false" /\ pc'[p] = "ret" /\ ~call'[p].built
      /\ UNCHANGED <<initialized, config, activeModules, msgChannels, flushChannels>>
      /\ UNCHANGED <<chanBuf, modCur, rec, nextRec, pushList>>

C9_NotStartedReturnsFalse == []C9_NothingPending /\ [][C9_CallBeforeStart]_vars

\* a call made before Start has returned false; the logger was started since
\* and its channels are empty
C9_Witness ==
  \E p \in Procs :
    /\ pc[p] = "ret" /\ call[p].op = "log" /\ ret[p] = "false"
    /\ initialized /\ msgChannels # <<>>
    /\ \A c \in Range(msgChannels) : chanBuf[c] = <<>>

(***************************************************************************)
(* C10.  As claimed: a Start call made while the logger is running changes *)
(* neither the configuration nor the registries nor the ID counter and     *)
(* launches no module; it emits one Error record whose message contains    *)
(* "logger already initialized", and that record arrives on every          *)
(* registered message channel.                                             *)
(***************************************************************************)
StartIsNoOp ==
  \A p \in Procs, conf \in StartConfigs :
    (Start(p, conf) /\ initialized) =>
      /\ UNCHANGED <<initialized, config, activeModules, msgChannels, flushChannels>>
      /\ UNCHANGED <<uniqueMsgID, chanCap, nextChan, modPc>>

IsAlreadyInitializedRecord(r) ==
  /\ r.Severity = SeverityError
  /\ Contains(r.Msg, <<"logger", "already", "initialized">>)

C10_ArrivesEverywhere ==
  \A p \in Procs :
    (pc[p] = "ret" /\ call[p].op = "start") =>
      /\ call[p].built /\ IsAlreadyInitializedRecord(rec[p])
      /\ outcome[p] = msgChannels

C10_SecondStartDelivered == []C10_ArrivesEverywhere /\ [][StartIsNoOp]_vars

(***************************************************************************)
(* C10, amended.  A Start call made while the logger is running changes    *)
(* neither the configuration nor the registries nor the ID counter and     *)
(* launches no module.  It makes an untagged Error logging call: when the  *)
(* active filter drops it (a threshold of Fatal, or a tag mode that drops  *)
(* the empty tag) no record is emitted; otherwise one Error record whose   *)
(* message contains "logger already initialized" goes through the bus,     *)
(* which gives every registered message channel its turn, and the record   *)
(* arrives on every channel that can take it when its turn comes.          *)
(***************************************************************************)
C10_StartStep ==
  \A p \in Procs, conf \in StartConfigs :
    (Start(p, conf) /\ initialized) =>
      /\ call'[p].op = "start"
      /\ IF isFilteredSeverity(SeverityError) \/ isFilteredTag(NoTag)
           THEN /\ pc'[p] = "ret" /\ ret'[p] = "true" /\ ~call'[p].built
                /\ UNCHANGED <<rec, nextRec, chanBuf, modCur>>
           ELSE /\ pc'[p] = "push" /\ call'[p].built
                /\ rec'[p].id = nextRec /\ nextRec' = nextRec + 1
                /\ IsAlreadyInitializedRecord(rec'[p])
                /\ UNCHANGED <<chanBuf, modCur>>

C10_Offered ==
  \A p \in Procs :
    call[p].op = "start" =>
      /\ pc[p] \in {"send", "evict", "ret"} /\ call[p].built => pushList[p] = msgChannels
      /\ pc[p] = "ret" /\ call[p].built => pushIdx[p] = Len(msgChannels) + 1
      /\ call[p].built => IsAlreadyInitializedRecord(rec[p])

C10_TurnDelivers ==
  \A p \in Procs :
    (call[p].op = "start" /\ pc[p] = "send" /\ retries[p] = 0 /\ PushStep(p)
       /\ CanSend(CurChan(p))) =>
      CurChan(p) \in Range(outcome'[p])

C10_SecondStartRejected ==
  []C10_Offered /\ [][StartIsNoOp /\ C10_StartStep /\ C10_TurnDelivers]_vars

\* the record of a second Start has arrived on both registered channels
C10_Witness ==
  \E p \in Procs :
    /\ pc[p] = "ret" /\ call[p].op = "start" /\ call[p].built
    /\ Len(msgChannels) = 2 /\ outcome[p] = msgChannels
    /\ IsAlreadyInitializedRecord(rec[p])

(***************************************************************************)
(* C11.  EnableModule called while the logger is running adds the module   *)
(* to no registry and launches no module goroutine (it makes an Error      *)
(* logging call instead); as long as the logger is running the list of     *)
(* enabled modules, the list of message channels, the list of flush        *)
(* channels and the set of launched modules stay as Start left them.       *)
(***************************************************************************)
Launched == {c \in ChanIds : modPc[c] # "none"}

C11_EnableRejected ==
  \A p \in Procs, m \in ModuleKinds :
    (EnableModule(p, m) /\ initialized) =>
      /\ UNCHANGED <<activeModules, msgChannels, flushChannels, initialized, config>>
      /\ UNCHANGED <<modPc, nextChan, chanCap, flushBuf>>
      /\ call'[p].op = "enable"

C11_FrozenWhileRunning ==
  (initialized /\ initialized') =>
    /\ UNCHANGED <<activeModules, msgChannels, flushChannels>>
    /\ Launched' = Launched

C11_BoundAtStart ==
  initialized =>
    /\ Len(msgChannels) = Len(activeModules)
    /\ Len(flushChannels) = Len(activeModules)

C11_EnableWhileRunning ==
  []C11_BoundAtStart /\ [][C11_EnableRejected /\ C11_FrozenWhileRunning]_vars

\* EnableModule was called on a running logger with one module bound
C11_Witness ==
  \E p \in Procs :
    /\ call[p].op = "enable" /\ pc[p] = "ret" /\ initialized
    /\ Len(activeModules) = 1 /\ Len(msgChannels) = 1 /\ Len(flushChannels) = 1

(***************************************************************************)
(* C12.  A Start call on a logger that is not running, after m modules     *)
(* were enabled, makes exactly m message channels and m flush channels,    *)
(* all new and all different, registers them in the order of the modules   *)
(* and launches one goroutine for each module, the i-th of them with the   *)
(* i-th message channel and the i-th flush channel; a goroutine is         *)
(* launched once and no list is changed while the logger is running.       *)
(***************************************************************************)
NoDuplicates(s) == \A i, j \in 1..Len(s) : s[i] = s[j] => i = j

C12_StartStep ==
  \A p \in Procs, conf \in LifeConfigs :
    (Start(p, conf) /\ ~initialized) =>
      /\ Len(msgChannels') = Len(activeModules)
      /\ Len(flushChannels') = Len(activeModules)
      /\ NoDuplicates(msgChannels') /\ NoDuplicates(flushChannels')
      /\ \A i \in 1..Len(activeModules) :
           /\ msgChannels'[i] = flushChannels'[i]
           /\ modPc[msgChannels'[i]] = "none" /\ modPc'[msgChannels'[i]] = "launched"
           /\ chanCap'[msgChannels'[i]] = conf.ChanCapacity
           /\ chanBuf'[msgChannels'[i]] = <<>> /\ flushBuf'[flushChannels'[i]] = <<>>
      /\ Launched' = Launched \cup Range(msgChannels')
      /\ Cardinality(Launched') = Cardinality(Launched) + Len(activeModules)
      /\ activeModules' = activeModules

C12_LaunchedOnce ==
  \A c \in ChanIds :
    /\ (modPc[c] # "none" /\ modPc[c] # "launched") => modPc'[c] # "launched"
    /\ (modPc[c] = "none" /\ modPc'[c] # "none") => (~initialized /\ initialized')

C12_NotReplaced ==
  (initialized /\ initialized') => UNCHANGED <<msgChannels, flushChannels, chanCap>>

C12_Bound ==
  /\ ~initialized => msgChannels = <<>> /\ flushChannels = <<>>
  /\ initialized =>
       /\ Len(msgChannels) = Len(activeModules)
       /\ msgChannels = flushChannels
       /\ NoDuplicates(msgChannels)
       /\ Range(msgChannels) \subseteq Launched
  /\ Cardinality(Launched) = nextChan - 1

C12_OneChannelPairPerModule ==
  []C12_Bound /\ [][C12_StartStep /\ C12_LaunchedOnce /\ C12_NotReplaced]_vars

\* two modules were enabled and Start has bound them to two channel pairs
C12_Witness ==
  /\ initialized /\ Len(activeModules) = 2
  /\ msgChannels = <<1, 2>> /\ flushChannels = <<1, 2>>
  /\ modPc[1] = "select" /\ modPc[2] = "launched"

(***************************************************************************)
(* C13.  A flushHelper that finds a request pending in the flush channel   *)
(* returns false in that very step: it does not enter the wait for the     *)
(* acknowledgment, makes no use of a response channel, and leaves the      *)
(* pending request in the channel as it was.  A flush channel never holds  *)
(* more than one request.                                                  *)
(***************************************************************************)
FlushStep(p) == pc'[p] # pc[p] \/ flushIdx'[p] # flushIdx[p]

C13_PendingStep ==
  \A p \in Procs :
    (pc[p] = "fsend" /\ flushBuf[CurFlushChan(p)] # <<>> /\ FlushStep(p)) =>
      /\ flushRes'[p] = Append(flushRes[p], "pending")
      /\ ~flushHelperValue("pending")
      /\ pc'[p] \in {"fsend", "ret"} /\ flushIdx'[p] = flushIdx[p] + 1
      /\ UNCHANGED <<flushBuf, ackBuf, nextAck, modRet>>

C13_OneRequestAtMost == \A c \in ChanIds : Len(flushBuf[c]) <= 1

C13_PendingFlushRejected == []C13_OneRequestAtMost /\ [][C13_PendingStep]_vars

\* a Flush was rejected by the only module, whose flush channel still holds
\* the request of an earlier Flush
C13_Witness ==
  \E p \in Procs :
    /\ pc[p] = "ret" /\ call[p].op = "flush"
    /\ flushRes[p] = <<"pending">> /\ flushBuf[flushList[p][1]] = <<1>>

(***************************************************************************)
(* C14.  Flush and flushHelper always return.  A caller in flushHelper is  *)
(* never blocked: the sends and the first select do not wait, and a caller *)
(* parked in the second select is woken by the timer when no               *)
(* acknowledgment has come, whatever the module does or does not do;       *)
(* flushHelper then returns false and Flush goes on with the next flush    *)
(* channel.  Every Flush call that is scheduled returns.                   *)
(***************************************************************************)
InFlush(p) == pc[p] \in {"fsend", "fsel", "fwait"}

C14_NeverBlocked ==
  \A p \in Procs :
    /\ pc[p] = "fsend" => ENABLED flushHelperSend(p)
    /\ pc[p] = "fsel" => ENABLED flushHelperSelect(p)
    /\ pc[p] = "fwait" => ENABLED flushHelperAck(p) \/ ENABLED flushHelperTimeout(p)
    /\ (pc[p] = "fwait" /\ ackBuf[responseChan[p]] = <<>>) => ENABLED flushHelperTimeout(p)

C14_TimeoutStep ==
  \A p \in Procs :
    (pc[p] = "fwait" /\ ackBuf[responseChan[p]] = <<>> /\ FlushStep(p)) =>
      /\ flushRes'[p] = Append(flushRes[p], "timeout")
      /\ ~flushHelperValue("timeout")
      /\ flushIdx'[p] = flushIdx[p] + 1
      /\ pc'[p] = IF flushIdx[p] < Len(flushList[p]) THEN "fsend" ELSE "ret"

C14_FlushReturns == InFlush(MainProc) ~> (pc[MainProc] = "ret" /\ call[MainProc].op = "flush")

C14_FlushAlwaysReturns ==
  []C14_NeverBlocked /\ [][C14_TimeoutStep]_vars /\ C14_FlushReturns

\* Flush has returned after the wait for two modules timed out: the first
\* never read its flush channel, the second read it and did not acknowledge
C14_Witness ==
  \E p \in Procs :
    /\ pc[p] = "ret" /\ call[p].op = "flush" /\ flushRes[p] = <<"timeout", "timeout">>
    /\ flushBuf[flushList[p][1]] # <<>>
    /\ modRet[flushList[p][2]] # 0

(***************************************************************************)
(* C15.  As claimed: whenever the acknowledgment of the module is in the   *)
(* response channel when the caller of flushHelper looks at it, flushHelper *)
(* returns true; and Flush puts one request into the flush channel of      *)
(* every module it finds free and has asked every module when it returns.  *)
(***************************************************************************)
AckThere(p) == pc[p] \in {"fsel", "fwait"} /\ ackBuf[responseChan[p]] # <<>>

C15_AckGivesTrue ==
  \A p \in Procs :
    (AckThere(p) /\ FlushStep(p)) => flushRes'[p] = Append(flushRes[p], "ack")

C15_OneRequestEach ==
  \A p \in Procs :
    (pc[p] = "fsend" /\ flushBuf[CurFlushChan(p)] = <<>> /\ FlushStep(p)) =>
      /\ flushBuf'[CurFlushChan(p)] = <<responseChan'[p]>>
      /\ responseChan'[p] = nextAck /\ nextAck' = nextAck + 1
      /\ \A c \in ChanIds \ {CurFlushChan(p)} : flushBuf'[c] = flushBuf[c]
      /\ pc'[p] = "fsel"

C15_EveryModuleAsked ==
  \A p \in Procs :
    (pc[p] = "ret" /\ call[p].op = "flush") =>
      /\ Len(flushRes[p]) = Len(flushList[p])
      /\ flushIdx[p] = Len(flushList[p]) + 1

C15_AckedFlushSucceeds ==
  []C15_EveryModuleAsked /\ [][C15_AckGivesTrue /\ C15_OneRequestEach]_vars

(***************************************************************************)
(* C15, amended.  flushHelper returns true when the acknowledgment comes   *)
(* while the caller is parked in the second select, or is already there    *)
(* when the caller enters that select and FlushTimeout is not 0.  With     *)
(* FlushTimeout = 0 and the acknowledgment already there, the timer has    *)
(* expired as well and either case of the select may be taken: flushHelper *)
(* returns true or false.  Flush puts one request into the flush channel   *)
(* of every module it finds free and has asked every module when it        *)
(* returns.                                                                *)
(***************************************************************************)
C15_AckStep ==
  \A p \in Procs :
    (AckThere(p) /\ FlushStep(p)) =>
      IF pc[p] = "fwait" \/ config.FlushTimeout # 0
        THEN /\ flushRes'[p] = Append(flushRes[p], "ack")
             /\ flushHelperValue("ack")
             /\ ackBuf'[responseChan[p]] = <<>>
        ELSE \/ flushRes'[p] = Append(flushRes[p], "ack") /\ ackBuf'[responseChan[p]] = <<>>
             \/ flushRes'[p] = Append(flushRes[p], "timeout") /\ ackBuf' = ackBuf

C15_AckInTimeSucceeds ==
  []C15_EveryModuleAsked /\ [][C15_AckStep /\ C15_OneRequestEach]_vars

\* Flush has returned and both modules had acknowledged in time
C15_Witness ==
  \E p \in Procs :
    /\ pc[p] = "ret" /\ call[p].op = "flush" /\ flushRes[p] = <<"ack", "ack">>
    /\ config.FlushTimeout # 0

(***************************************************************************)
(* C16.  A module that is about to acknowledge is never blocked, also when *)
(* the caller of flushHelper has timed out and gone: the response channel  *)
(* it holds is empty, because every response channel is in one place only  *)
(* (a flush channel, the hand of one module, or acknowledged) and takes at *)
(* most one value; the acknowledging step takes the module back to the     *)
(* select of its loop.                                                     *)
(***************************************************************************)
Holders(a) ==
  Cardinality({c \in ChanIds : a \in Range(flushBuf[c])})
    + Cardinality({c \in ChanIds : modRet[c] = a})

C16_AckNeverBlocks ==
  /\ \A a \in AckIds : Len(ackBuf[a]) <= AckChanCap /\ Holders(a) + Len(ackBuf[a]) <= 1
  /\ \A c \in ChanIds :
       modPc[c] = "ack" =>
         /\ modRet[c] \in AckIds /\ ackBuf[modRet[c]] = <<>>
         /\ ENABLED ModuleAck(c)

C16_AckStep ==
  \A c \in ChanIds :
    (modPc[c] = "ack" /\ modPc'[c] # "ack") =>
      /\ modPc'[c] = "select" /\ modRet'[c] = 0
      /\ ackBuf'[modRet[c]] = <<TRUE>>

C16_LateAckNeverBlocks == []C16_AckNeverBlocks /\ [][C16_AckStep]_vars

\* the caller timed out and returned; the module has acknowledged since and
\* is back in its select, the acknowledgment lies in the abandoned channel
C16_Witness ==
  \E p \in Procs, c \in ChanIds, a \in AckIds :
    /\ pc[p] = "ret" /\ call[p].op = "flush" /\ flushRes[p] = <<"timeout">>
    /\ flushList[p] = <<c>> /\ modPc[c] = "select" /\ modRet[c] = 0
    /\ ackBuf[a] = <<TRUE>>

(***************************************************************************)
(* C17.  Flush goes through the flush channels in the order of their       *)
(* registration, one at a time: a request is put into the channel of the   *)
(* element the loop is at, and only when flushHelper has returned for      *)
(* every element before it; whatever flushHelper returned for an element,  *)
(* the loop goes on, so that every element has been dealt with when Flush  *)
(* returns.                                                                *)
(***************************************************************************)
C17_InOrder ==
  \A p \in Procs :
    /\ InFlush(p) =>
         /\ flushList[p] = flushChannels
         /\ flushIdx[p] \in 1..Len(flushList[p])
         /\ Len(flushRes[p]) = flushIdx[p] - 1
    /\ responseChan[p] # 0 => pc[p] \in {"fsel", "fwait"}
    /\ (pc[p] = "ret" /\ call[p].op = "flush") =>
         /\ Len(flushRes[p]) = Len(flushList[p])
         /\ \A i \in 1..Len(flushRes[p]) : flushRes[p][i] \in ReturnSites

C17_RequestAtTurn ==
  \A c \in ChanIds :
    Len(flushBuf'[c]) > Len(flushBuf[c]) =>
      \E p \in Procs :
        /\ pc[p] = "fsend" /\ CurFlushChan(p) = c
        /\ Len(flushRes[p]) = flushIdx[p] - 1
        /\ responseChan[p] = 0

C17_GoesOn ==
  \A p \in Procs :
    (InFlush(p) /\ flushIdx'[p] # flushIdx[p]) =>
      /\ flushIdx'[p] = flushIdx[p] + 1
      /\ Len(flushRes'[p]) = Len(flushRes[p]) + 1
      /\ pc'[p] = IF flushIdx[p] < Len(flushList[p]) THEN "fsend" ELSE "ret"

C17_FlushSequential == []C17_InOrder /\ [][C17_RequestAtTurn /\ C17_GoesOn]_vars

\* the first module did not acknowledge in time, the second was asked after
\* that and has acknowledged
C17_Witness ==
  \E p \in Procs :
    /\ pc[p] = "ret" /\ call[p].op = "flush" /\ flushRes[p] = <<"timeout", "ack">>
    /\ flushList[p] = <<1, 2>>

(***************************************************************************)
(* C18.  As claimed: when Flush returns, every record logged before the    *)
(* call has been written by every enabled module.  In SpecFlush the        *)
(* goroutine that calls Flush is the only one that logs, so every record   *)
(* that exists was logged before the call; a record that is still queued   *)
(* in a message channel, or in the hand of a module that has not printed   *)
(* it, has not been written.                                               *)
(***************************************************************************)
Unwritten(c) == chanBuf[c] # <<>> \/ modCur[c] # NoRec

C18_AckedModulesDrained ==
  \A p \in Procs :
    (pc[p] = "ret" /\ call[p].op = "flush") =>
      \A i \in 1..Len(flushList[p]) :
        flushRes[p][i] = "ack" => ~Unwritten(flushList[p][i])

C18_TakenIsPrinted ==
  \A c \in ChanIds :
    /\ modCur[c] # NoRec => modPc[c] \in {"busy", "flushprint"}
    /\ modPc[c] = "busy" => ENABLED ModulePrint(c)
    /\ modPc[c] = "flushprint" => ENABLED ModuleFlushPrint(c)

InFlushCase(c) == modPc[c] \in {"flush", "flushprint", "ack"}

C19_RequestInHand ==
  /\ \A c \in ChanIds :
       /\ InFlushCase(c) <=> modRet[c] # 0
       /\ modRet[c] # 0 => modRet[c] \in 1..(nextAck - 1)
       /\ modPc[c] = "flushprint" <=> (InFlushCase(c) /\ modCur[c] # NoRec)
  /\ \A a \in AckIds :
       /\ a >= nextAck => ackBuf[a] = <<>>
       /\ Cardinality({c \in ChanIds : modRet[c] = a}) + Len(ackBuf[a]) <= 1
       /\ \A i \in 1..Len(ackBuf[a]) : ackBuf[a][i] = TRUE

C19_ModuleStep ==
  \A c \in ChanIds :
    /\ (~InFlushCase(c) /\ InFlushCase(c)') =>
         /\ modPc[c] = "select" /\ flushBuf[c] # <<>>
         /\ modRet'[c] = Head(flushBuf[c]) /\ flushBuf'[c] = Tail(flushBuf[c])
         /\ modPc'[c] = "flush"
    /\ (modPc[c] = "flush" /\ modPc'[c] # "flush") =>
         IF chanBuf[c] # <<>>
           THEN /\ modPc'[c] = "flushprint" /\ modCur'[c] = Head(chanBuf[c])
                /\ chanBuf'[c] = Tail(chanBuf[c])
           ELSE modPc'[c] = "ack" /\ chanBuf'[c] = <<>>
    /\ (modPc[c] = "flushprint" /\ modPc'[c] # "flushprint") =>
         modPc'[c] = "flush" /\ modCur'[c] = NoRec
    /\ (modPc[c] = "ack" /\ modPc'[c] # "ack") =>
         /\ modPc'[c] = "select" /\ modRet'[c] = 0
         /\ ackBuf'[modRet[c]] = <<TRUE>>
    /\ InFlushCase(c) /\ InFlushCase(c)' => modRet'[c] = modRet[c]

C19_AckOnlyByHolder ==
  \A a \in AckIds :
    Len(ackBuf'[a]) > Len(ackBuf[a]) =>
      /\ Len(ackBuf'[a]) = Len(ackBuf[a]) + 1
      /\ \E c \in ChanIds : modPc[c] = "ack" /\ modRet[c] = a /\ modRet'[c] = 0

C20_IDsDiffer == NoDuplicates(issued)

(***************************************************************************)
(* Records that exist: in the hands of a caller, in a channel, or in the   *)
(* hands of a module.                                                      *)
(***************************************************************************)
RecordsAlive ==
  ({rec[p] : p \in Procs} \cup {modCur[c] : c \in ChanIds}
     \cup UNION {Range(chanBuf[c]) : c \in ChanIds}) \ {NoRec}

\* the severity the documentation gives the API function that writes level
DocumentedSeverity(level) ==
  CHOOSE s \in Severities :
    level = <<"FATAL", "ERROR", "WARNING", "INFO", "DEBUG">>[OrderPos(s)]

(***************************************************************************)
(* C21.  A record built by a logging call carries a non-empty stack trace  *)
(* exactly when its severity is Fatal or Error; a record of severity       *)
(* Warning, Info or Debug carries the empty trace; and the Severity field  *)
(* of the record is the severity of the API function that was called,      *)
(* which is the function whose level stands at the head of the message.    *)
(***************************************************************************)
C21_TraceIffFatalOrError ==
  \A r \in RecordsAlive :
    /\ r.StackTrace # <<>> <=> r.Severity \in {SeverityFatal, SeverityError}
    /\ r.Severity \in {SeverityWarning, SeverityInfo, SeverityDebug} => r.StackTrace = <<>>

C21_SeverityOfApi ==
  \A p \in Procs, fn \in ApiNames, tag \in Tags :
    (LogCall(p, fn, tag) /\ call'[p].built) =>
      /\ rec'[p].Severity = DocumentedSeverity(ApiLevel(fn))
      /\ Head(rec'[p].Msg) = "<" \o ApiLevel(fn) \o ">"
      /\ rec'[p].StackTrace # <<>> <=> fn \in {"Fatal", "Error"}

C21_TraceOnlyForFatalAndError == []C21_TraceIffFatalOrError /\ [][C21_SeverityOfApi]_vars

\* an Error record has been built: its trace starts at the frame of the caller
C21_Witness ==
  \E p \in Procs :
    /\ pc[p] = "push" /\ call[p].op = "log"
    /\ rec[p].Severity = SeverityError
    /\ rec[p].StackTrace # <<>>
    /\ Head(rec[p].StackTrace) = "main.main(...)"

(***************************************************************************)
(* C22.  ResetState returns the logger to the Uninitialized state from any *)
(* state, Registering or Running: when it has returned, initialized is     *)
(* false, the configuration is the zero configuration, and the module      *)
(* registry, the message-channel registry and the flush-channel registry   *)
(* are empty.                                                              *)
(***************************************************************************)
C22_ResetClearsAll ==
  \A p \in Procs :
    (pc[p] = "ret" /\ call[p].op = "reset") =>
      /\ ~initialized
      /\ config = ZeroConfig
      /\ activeModules = <<>>
      /\ msgChannels = <<>>
      /\ flushChannels = <<>>

\* what ResetState does reach: from Running everything is cleared, and in
\* every case the logger is uninitialized with no channel registered
C22_ResetFromRunning ==
  \A p \in Procs :
    (pc[p] = "ret" /\ call[p].op = "reset") =>
      ~initialized /\ config = ZeroConfig /\ msgChannels = <<>> /\ flushChannels = <<>>

\* ResetState has returned in the Registering state
C22_ResetWhileRegistering ==
  \E p \in Procs :
    pc[p] = "ret" /\ call[p].op = "reset" /\ ~initialized /\ activeModules # <<>>

(***************************************************************************)
(* C23.  Once Start has succeeded, the active configuration (channel       *)
(* capacity, flush timeout, severity threshold, tag sets) is changed by no *)
(* public operation other than ResetState: not by a later Start with       *)
(* another configuration, and not by a configuration method that is called *)
(* on the RlogConfig value of the caller.  The configuration changes only  *)
(* when a Start succeeds, to the value given to it, and when ResetState    *)
(* clears it.                                                              *)
(***************************************************************************)
C23_ResetStep ==
  \E p \in Procs :
    pc[p] = "idle" /\ pc'[p] = "ret" /\ call'[p].op = "reset" /\ ~initialized'

C23_FrozenWhileRunning ==
  initialized => (config' = config \/ (C23_ResetStep /\ config' = ZeroConfig))

C23_BoundByStart ==
  (~initialized /\ config' # config) => (initialized' /\ config' = userConf)

C23_ConfigFrozenAfterStart == [][C23_FrozenWhileRunning /\ C23_BoundByStart]_vars

\* a Start with another configuration has been rejected, after the caller
\* changed its RlogConfig value with a configuration method
C23_Witness ==
  \E p \in Procs :
    /\ initialized /\ pc[p] = "ret" /\ call[p].op = "start"
    /\ confCall.mode \in {"enable", "disable", "severity"}
    /\ userConf.Severity # config.Severity
    /\ userConf.tagsEnabledExcept # config.tagsEnabledExcept
    /\ userConf.ChanCapacity # config.ChanCapacity

(***************************************************************************)
(* C27.  SeverityFromString sets the threshold to the matching level for   *)
(* each of the five level names "fatal", "error", "warning", "info",       *)
(* "debug" written in any letter case; for every other string it panics    *)
(* and leaves the threshold unchanged.                                     *)
(***************************************************************************)
SeverityName(s) ==
  << <<"f", "a", "t", "a", "l">>, <<"e", "r", "r", "o", "r">>,
     <<"w", "a", "r", "n", "i", "n", "g">>, <<"i", "n", "f", "o">>,
     <<"d", "e", "b", "u", "g">> >>[OrderPos(s)]

\* the capital letter of a small letter
Capital(ch) == UpperLetters[CHOOSE i \in 1..Len(LowerLetters) : LowerLetters[i] = ch]

\* value is name with each letter small or capital
InAnyLetterCase(value, name) ==
  /\ Len(value) = Len(name)
  /\ \A i \in 1..Len(name) : value[i] \in {name[i], Capital(name[i])}

\* value is name with each letter small or capital, or U+0130 for an i
InAnyLetterCaseOrDottedI(value, name) ==
  /\ Len(value) = Len(name)
  /\ \A i \in 1..Len(name) :
       value[i] \in {name[i], Capital(name[i])}
                      \cup (IF name[i] = "i" THEN {CapitalIWithDot} ELSE {})

\* a call of SeverityFromString accepts exactly the strings that Matches a name
C27_CallAgrees(Matches(_, _)) ==
  \A value \in SeverityStrings :
    UserSeverityFromString(value) =>
      IF \E s \in Severities : Matches(value, SeverityName(s))
        THEN /\ confCall'.mode = "severity"
             /\ userConf' = [userConf EXCEPT !.Severity =
                  CHOOSE s \in Severities : Matches(value, SeverityName(s))]
        ELSE /\ confCall'.mode = "panic"
             /\ userConf' = userConf

Builder(r) == CHOOSE p \in 1..Len(FifoApis) : ApiSeverity(FifoApis[p]) = r.Severity

\* a was logged before b by the same caller
LoggedBefore(a, b) == Builder(a) = Builder(b) /\ a.id < b.id

C24_CallerOrderKept ==
  \A c \in ChanIds :
    /\ \A i, j \in 1..Len(chanBuf[c]) :
         (i < j /\ Builder(chanBuf[c][i]) = Builder(chanBuf[c][j])) =>
           LoggedBefore(chanBuf[c][i], chanBuf[c][j])
    /\ \A i \in 1..Len(chanBuf[c]) :
         (modCur[c] # NoRec /\ Builder(modCur[c]) = Builder(chanBuf[c][i])) =>
           LoggedBefore(modCur[c], chanBuf[c][i])
    /\ \A p \in Procs, i \in 1..Len(chanBuf[c]) :
         (Pushing(p) /\ pc[p] # "push" /\ pushIdx[p] <= Len(pushList[p])
            /\ CurChan(p) = c /\ Builder(chanBuf[c][i]) = p) =>
           LoggedBefore(chanBuf[c][i], rec[p])

C24_QueueStep ==
  \A c \in ChanIds :
    /\ \/ chanBuf'[c] = chanBuf[c]
       \/ \E p \in Procs :
            pc[p] = "send" /\ CurChan(p) = c /\ chanBuf'[c] = Append(chanBuf[c], rec[p])
       \/ chanBuf[c] # <<>> /\ chanBuf'[c] = Tail(chanBuf[c])
       \/ chanBuf'[c] = <<>> /\ modPc[c] # modPc'[c] /\ modPc'[c] = "launched"
    /\ (modCur'[c] # modCur[c] /\ modCur'[c] # NoRec) =>
         /\ chanBuf[c] # <<>>
         /\ modCur'[c] = Head(chanBuf[c])
         /\ chanBuf'[c] = Tail(chanBuf[c])

C24_ChannelFifo == []C24_CallerOrderKept /\ [][C24_QueueStep]_vars

\* a module is handed the older of two records of one caller, after a
\* record of the other caller, enqueued before them, was evicted or read
C24_Witness ==
  \E c \in ChanIds :
    /\ chanCap[c] = MaxCap
    /\ modCur[c] # NoRec /\ chanBuf[c] # <<>>
    /\ Builder(modCur[c]) = Builder(Head(chanBuf[c]))
    /\ modCur[c].id > 1
    /\ \E p \in Procs : pc[p] = "evict" /\ CurChan(p) = c

(***************************************************************************)
(* What a call of pushToChannelsHelper has done when it ends: the lines it *)
(* wrote with log.Printf, and the records it lost (the queued records it   *)
(* removed, and the new record if it gave it up).                          *)
(***************************************************************************)
HelperEnds(p) == pc[p] \in {"send", "evict"} /\ pushIdx'[p] = pushIdx[p] + 1

LinesAtEnd(p) == diag[p]

LostAtEnd(p) ==
  lost[p] + (IF pc[p] = "evict"
               THEN 1 + (IF chanBuf[CurChan(p)] # <<>> THEN 1 ELSE 0)
               ELSE 0)

\* a step of pushToChannelsHelper puts nothing on a message channel but the
\* record it was given, and no record is built for the line it writes
C25_NotThroughTheBus ==
  \A p \in Procs :
    (pc[p] \in {"send", "evict"} /\ PushStep(p)) =>
      /\ nextRec' = nextRec
      /\ rec' = rec
      /\ \A c \in ChanIds : Range(chanBuf'[c]) \subseteq Range(chanBuf[c]) \cup {rec[p]}

(***************************************************************************)
(* C25.  Each record lost to backpressure produces at most one diagnostic  *)
(* line on the side path (the Go standard logger), and a push that loses   *)
(* no record produces none: a call of pushToChannelsHelper writes no more  *)
(* lines than it loses records.  No such diagnostic is sent through the    *)
(* rlog bus itself.                                                        *)
(***************************************************************************)
C25_LinesAtMostLost ==
  \A p \in Procs : HelperEnds(p) => LinesAtEnd(p) <= LostAtEnd(p)

C25_OneLinePerLostRecord == [][C25_LinesAtMostLost /\ C25_NotThroughTheBus]_vars

(***************************************************************************)
(* C25 as it holds: every failed send attempt writes one line on the       *)
(* standard logger, whether a record is lost by it or not.  A call of      *)
(* pushToChannelsHelper has written as many lines as attempts of it have   *)
(* failed, at most 3: none when its first attempt succeeds, 3 when it      *)
(* gives the new record up; the queued records it has removed are no more  *)
(* than the lines.  No such diagnostic is sent through the rlog bus.       *)
(***************************************************************************)
C25_LinesAreFailedAttempts ==
  \A p \in Procs :
    /\ pc[p] = "send" => diag[p] = retries[p]
    /\ pc[p] = "evict" => diag[p] = retries[p] + 1
    /\ pc[p] \in {"send", "evict"} => lost[p] <= diag[p] /\ diag[p] <= 3
    /\ pc[p] \notin {"send", "evict"} => diag[p] = 0 /\ lost[p] = 0

C25_EndOfHelper ==
  \A p \in Procs :
    HelperEnds(p) =>
      /\ pc[p] = "send" => (LinesAtEnd(p) = 0 <=> retries[p] = 0)
      /\ pc[p] = "evict" => LinesAtEnd(p) = 3
      /\ LostAtEnd(p) <= LinesAtEnd(p) + 1

C25_OneLinePerFailedAttempt ==
  []C25_LinesAreFailedAttempts /\ [][C25_EndOfHelper /\ C25_NotThroughTheBus]_vars

\* the second attempt on a channel with a buffer has failed and two lines
\* are written, while no queued record was removed: the module was faster
C25_Witness ==
  \E p \in Procs :
    /\ pc[p] = "evict" /\ retries[p] = 1
    /\ chanCap[CurChan(p)] >= 1
    /\ diag[p] = 2 /\ lost[p] = 0

(***************************************************************************)
(* C26.  nonBlockingChanRead never blocks: on an empty channel it returns  *)
(* nil and leaves the channel unchanged; on a non-empty channel it returns *)
(* the oldest queued record and removes exactly that one record.           *)
(***************************************************************************)
C26_ReadOfChannel(buf) ==
  IF buf = <<>>
    THEN /\ nonBlockingChanReadResult(buf) = NoRec
         /\ nonBlockingChanRead(buf) = buf
    ELSE /\ nonBlockingChanReadResult(buf) = buf[1]
         /\ nonBlockingChanReadResult(buf) # NoRec
         /\ <<nonBlockingChanReadResult(buf)>> \o nonBlockingChanRead(buf) = buf

C26_NeverBlocks ==
  /\ \A c \in ChanIds : C26_ReadOfChannel(chanBuf[c])
  /\ \A p \in Procs : pc[p] = "evict" => ENABLED Evict(p)

\* the read of a caller takes its step on the channel in one piece
C26_ReadStep ==
  \A p \in Procs :
    (pc[p] = "evict" /\ PushStep(p)) =>
      /\ chanBuf'[CurChan(p)] = nonBlockingChanRead(chanBuf[CurChan(p)])
      /\ \A c \in ChanIds \ {CurChan(p)} : chanBuf'[c] = chanBuf[c]
      /\ modCur' = modCur

C26_NonBlockingRead == []C26_NeverBlocks /\ [][C26_ReadStep]_vars

\* a caller is about to read a buffered channel that the module has emptied,
\* while its other channel is full
C26_Witness ==
  \E p \in Procs :
    /\ pc[p] = "evict"
    /\ chanCap[CurChan(p)] >= 1 /\ chanBuf[CurChan(p)] = <<>>
    /\ \E c \in ChanIds : chanCap[c] >= 1 /\ Len(chanBuf[c]) = chanCap[c]

(***************************************************************************)
(* C28.  In pushToChannelsHelper every eviction of a queued record is      *)
(* followed by another send attempt of the new record by the same call, on *)
(* the same channel: with 3 send attempts in total a call evicts at most 2 *)
(* records, and a call that ends by dropping its own record has never      *)
(* removed a queued record without retrying afterwards.                    *)
(***************************************************************************)
\* the step of p removes a queued record
EvictsRecord(p) == pc[p] = "evict" /\ PushStep(p) /\ chanBuf[CurChan(p)] # <<>>

C28_RetryAfterEviction ==
  \A p \in Procs :
    EvictsRecord(p) =>
      /\ pc'[p] = "send" /\ pushIdx'[p] = pushIdx[p] /\ rec'[p] = rec[p]
      /\ lost'[p] <= 2

C28_EvictionIsRetried == [][C28_RetryAfterEviction]_vars

\* what holds of the evictions: the first two are followed by an attempt,
\* and a call removes 3 queued records at most
C28_EarlyEvictionsRetried ==
  \A p \in Procs :
    (EvictsRecord(p) /\ retries[p] + 1 < 3) =>
      pc'[p] = "send" /\ pushIdx'[p] = pushIdx[p] /\ lost'[p] <= 2

C28_ThreeEvictionsAtMost == [][C28_EarlyEvictionsRetried]_vars

\* a call is about to remove a third record, after its third attempt failed
C28_ThirdEviction ==
  \E p \in Procs :
    pc[p] = "evict" /\ retries[p] = 2 /\ lost[p] = 2 /\ chanBuf[CurChan(p)] # <<>>

(***************************************************************************)
(* C29.  With no concurrent caller or reader, a push into a channel that   *)
(* has a free slot succeeds on the first attempt and removes nothing, and  *)
(* a push into a full channel of capacity >= 1 evicts exactly the oldest   *)
(* record and succeeds on the second attempt; the new record is then the   *)
(* newest entry, and the number of queued records never exceeds the        *)
(* capacity.                                                               *)
(***************************************************************************)
C29_WithinCapacity ==
  /\ \A c \in ChanIds : Len(chanBuf[c]) <= chanCap[c]
  /\ \A p \in Procs :
       (pc[p] \in {"send", "evict"} /\ chanCap[CurChan(p)] >= 1) =>
         /\ pc[p] = "evict" =>
              retries[p] = 0 /\ Len(chanBuf[CurChan(p)]) = chanCap[CurChan(p)]
         /\ pc[p] = "send" => retries[p] \in {0, 1} /\ lost[p] = retries[p]
         /\ (pc[p] = "send" /\ retries[p] = 1) =>
              Len(chanBuf[CurChan(p)]) = chanCap[CurChan(p)] - 1

C29_PushStep ==
  \A p \in Procs :
    (pc[p] \in {"send", "evict"} /\ PushStep(p) /\ chanCap[CurChan(p)] >= 1) =>
      LET c == CurChan(p) IN
        \* the first attempt, into a free slot
        /\ (pc[p] = "send" /\ retries[p] = 0 /\ Len(chanBuf[c]) < chanCap[c]) =>
             /\ chanBuf'[c] = Append(chanBuf[c], rec[p])
             /\ pushIdx'[p] = pushIdx[p] + 1 /\ outcome'[p] = Append(outcome[p], c)
        \* the first attempt, into a full channel
        /\ (pc[p] = "send" /\ retries[p] = 0 /\ Len(chanBuf[c]) = chanCap[c]) =>
             pc'[p] = "evict" /\ chanBuf'[c] = chanBuf[c]
        \* the eviction: the oldest record and no other
        /\ pc[p] = "evict" =>
             /\ chanBuf[c] = <<Head(chanBuf[c])>> \o chanBuf'[c]
             /\ pc'[p] = "send" /\ retries'[p] = 1 /\ pushIdx'[p] = pushIdx[p]
        \* the second attempt
        /\ (pc[p] = "send" /\ retries[p] = 1) =>
             /\ chanBuf'[c] = Append(chanBuf[c], rec[p])
             /\ Len(chanBuf'[c]) = chanCap[c]
             /\ chanBuf'[c][Len(chanBuf'[c])] = rec[p]
             /\ pushIdx'[p] = pushIdx[p] + 1 /\ outcome'[p] = Append(outcome[p], c)

C29_SoloPush == []C29_WithinCapacity /\ [][C29_PushStep]_vars

\* the second attempt into a channel of capacity 2 that was full has
\* succeeded: the new record is the newest of two
C29_Witness ==
  \E p \in Procs, c \in ChanIds :
    /\ pc[p] = "ret" /\ call[p].built /\ outcome[p] = <<c>>
    /\ chanCap[c] = 2 /\ Len(chanBuf[c]) = 2
    /\ chanBuf[c][2] = rec[p] /\ rec[p].id = 3

(***************************************************************************)
(* C30.  A logging call whose severity or tag is filtered returns true and *)
(* changes nothing: no record is constructed, no stack trace is captured   *)
(* and no channel content changes.  The filter decision is taken before    *)
(* any record construction step, so the call has returned with its first   *)
(* step and nothing of the logger or of the other goroutines differs.      *)
(***************************************************************************)
\* the configuration drops a message of this severity and tag
DroppedByConfig(severity, tag) ==
  \/ LessSevere(severity, config.Severity)
  \/ config.tagsEnabledExcept # NilMap /\ tag \in config.tagsEnabledExcept[1]
  \/ /\ config.tagsEnabledExcept = NilMap /\ config.tagsDisabledExcept # NilMap
     /\ tag \notin config.tagsDisabledExcept[1]

\* p enters a logging call
LogCallStep(p) == pc[p] = "idle" /\ pc'[p] # "idle" /\ call'[p].op = "log"

C30_FilteredStep ==
  \A p \in Procs :
    (LogCallStep(p) /\ initialized /\ DroppedByConfig(call'[p].severity, call'[p].tag)) =>
      /\ pc'[p] = "ret" /\ ret'[p] = "true" /\ ~call'[p].built
      /\ rec' = rec /\ rec'[p] = NoRec /\ nextRec' = nextRec
      /\ chanBuf' = chanBuf /\ modCur' = modCur /\ modPc' = modPc
      /\ diag' = diag /\ lost' = lost
      /\ UNCHANGED <<coreVars, chanCap, nextChan, confVars, flushVars, issued>>
      /\ \A q \in Procs \ {p} : pc'[q] = pc[q] /\ call'[q] = call[q] /\ ret'[q] = ret[q]

\* a call that built no record holds none and pushes nothing
C30_NothingBuilt ==
  \A p \in Procs :
    (call[p].op = "log" /\ ~call[p].built) =>
      pc[p] = "ret" /\ rec[p] = NoRec /\ rec[p].StackTrace = <<>> /\ outcome[p] = <<>>

C30_FilteredCallChangesNothing == []C30_NothingBuilt /\ [][C30_FilteredStep]_vars

\* a Debug call has been dropped by the threshold while a channel holds an
\* Error record with its trace
C30_Witness ==
  \E p \in Procs, c \in ChanIds :
    /\ initialized /\ pc[p] = "ret" /\ ret[p] = "true"
    /\ call[p].op = "log" /\ ~call[p].built /\ call[p].severity = SeverityDebug
    /\ chanBuf[c] # <<>> /\ Head(chanBuf[c]).StackTrace # <<>>

(***************************************************************************)
(* C31.  As claimed: when flushHelper returns true, the value it read was  *)
(* sent on the response channel that this very call of flushHelper made,   *)
(* and before it sent that value the module had processed every record     *)
(* that was in its data channel when it read the request; the              *)
(* acknowledgment of an earlier request, which timed out, is never taken   *)
(* as the answer to a later one.                                           *)
(***************************************************************************)
AckReturn(p) == flushRes'[p] = Append(flushRes[p], "ack")

\* a response channel is new when flushHelper puts it into a flush channel:
\* it is empty, nobody holds it and no request was served on it
C31_FreshChannel ==
  \A p \in Procs :
    (pc[p] = "fsend" /\ pc'[p] = "fsel") =>
      /\ responseChan'[p] = nextAck /\ nextAck' = nextAck + 1
      /\ ackBuf[nextAck] = <<>> /\ Holders(nextAck) = 0
      /\ served[nextAck] = NoServed
      /\ \A q \in Procs : responseChan[q] # nextAck

\* flushHelper reads its own response channel and no other
C31_OwnAck ==
  \A p \in Procs :
    AckReturn(p) =>
      /\ responseChan[p] \in 1..(nextAck - 1)
      /\ ackBuf[responseChan[p]] = <<TRUE>>
      /\ ackBuf' = [ackBuf EXCEPT ![responseChan[p]] = <<>>]

\* an acknowledgment is in a response channel only when the request was read
\* and the module that read it has let go of it
C31_AckOfRequest ==
  /\ \A a \in AckIds :
       ackBuf[a] # <<>> => a < nextAck /\ Holders(a) = 0
  /\ \A p, q \in Procs :
       (p # q /\ responseChan[p] # 0) => responseChan[p] # responseChan[q]

C31_AllProcessed ==
  \A p \in Procs : AckReturn(p) => served[responseChan[p]] = NoServed

C31_TrueMeansAllProcessed ==
  []C31_AckOfRequest /\ [][C31_FreshChannel /\ C31_OwnAck /\ C31_AllProcessed]_vars

(***************************************************************************)
(* C31, amended.  When flushHelper returns true, the value it read was     *)
(* sent on the response channel that this very call made, and an earlier   *)
(* acknowledgment is never taken as the answer to a later request.  Before *)
(* the module sent the value, every record that was in its data channel    *)
(* when it read the request had left the channel: the module had taken and *)
(* printed it, or a logging call of another goroutine, finding the channel *)
(* full, had removed it with nonBlockingChanRead, and such a record is     *)
(* printed by nobody.                                                      *)
(***************************************************************************)
C31_NothingLeftQueued ==
  /\ \A a \in AckIds : ackBuf[a] # <<>> => served[a].owed = {}
  /\ \A c \in ChanIds :
       /\ modPc[c] = "ack" => served[modRet[c]].owed = {}
       /\ modRet[c] # 0 =>
            served[modRet[c]].owed \subseteq {chanBuf[c][i].id : i \in 1..Len(chanBuf[c])}

C31_AllTakenOrEvicted ==
  \A p \in Procs : AckReturn(p) => served[responseChan[p]].owed = {}

C31_TrueMeansQueueLeft ==
  /\ []C31_AckOfRequest /\ []C31_NothingLeftQueued
  /\ [][C31_FreshChannel /\ C31_OwnAck /\ C31_AllTakenOrEvicted]_vars

\* the first Flush timed out and its acknowledgment came late; the second
\* Flush got true although a record that was queued when the module read the
\* second request was removed by a logging call
C31_Witness ==
  /\ pc[MainProc] = "ret" /\ call[MainProc].op = "flush" /\ flushRes[MainProc] = <<"ack">>
  /\ nextAck = 3 /\ ackBuf[1] = <<TRUE>> /\ ackBuf[2] = <<>>
  /\ served[2].owed = {} /\ served[2].evicted # {}

(***************************************************************************)
(* C32.  Whenever initialized is true, every registered module is bound:   *)
(* the list of message channels and the list of flush channels hold one    *)
(* entry for each element of activeModules, each entry a channel of its    *)
(* own with a module goroutine.  While initialized stays true no step      *)
(* changes the lists: no logging call, no Flush, no EnableModule and no    *)
(* Start; only ResetState does.  While Start is binding the modules        *)
(* initialized is false, so that a logging call that passes the check of   *)
(* initialized finds every registered module bound.                        *)
(***************************************************************************)
C32_AllBound ==
  /\ Len(msgChannels) = Len(activeModules)
  /\ Len(flushChannels) = Len(activeModules)
  /\ Cardinality(Range(msgChannels)) = Len(msgChannels)
  /\ flushChannels = msgChannels
  /\ \A c \in Range(msgChannels) : modPc[c] # "none"

C32_BoundWhenInitialized ==
  /\ initialized => C32_AllBound
  /\ \A p \in Procs :
       pc[p] = "launch" =>
         /\ ~initialized
         /\ Len(msgChannels) = launchIdx[p] - 1 /\ Len(flushChannels) = launchIdx[p] - 1

C32_FrozenUntilReset ==
  /\ (initialized /\ initialized') =>
       UNCHANGED <<msgChannels, flushChannels, activeModules>>
  /\ (initialized /\ <<msgChannels, flushChannels>>' # <<msgChannels, flushChannels>>) =>
       \E p \in Procs : pc[p] = "idle" /\ call'[p] = ResetCall /\ ~initialized'

PassesCheck(p) ==
  /\ pc[p] = "idle" /\ pc'[p] \in {"push", "ret"}
  /\ call'[p].op \in {"log", "start", "enable"}
  /\ ret'[p] # "false"

C32_CheckPassedWhenBound ==
  \A p \in Procs : PassesCheck(p) => initialized /\ C32_AllBound

TimedOutAt(p, c) ==
  \E i \in 1..Len(flushRes[p]) : flushRes[p][i] = "timeout" /\ flushList[p][i] = c

TimesOut(p) == flushRes'[p] = Append(flushRes[p], "timeout")

C33_NoResend ==
  /\ \A p \in Procs :
       TimesOut(p) =>
         /\ UNCHANGED <<flushBuf, ackBuf, nextAck, modPc, modRet, chanBuf>>
         /\ flushIdx'[p] = flushIdx[p] + 1 /\ responseChan'[p] = 0
         /\ pc'[p] = IF flushIdx[p] < Len(flushList[p]) THEN "fsend" ELSE "ret"
  /\ \A c \in ChanIds :
       Len(flushBuf'[c]) > Len(flushBuf[c]) =>
         \E p \in Procs :
           /\ pc[p] = "fsend" /\ CurFlushChan(p) = c /\ pc'[p] = "fsel"
           /\ ~TimedOutAt(p, c)

C33_ModuleNotStopped ==
  \A c \in ChanIds :
    /\ (modPc[c] = "select" /\ chanBuf[c] # <<>>) => ENABLED ModuleRecv(c)
    /\ (modPc[c] = "select" /\ flushBuf[c] # <<>>) => ENABLED ModuleFlushRecv(c)
    /\ modPc[c] = "busy" => ENABLED ModulePrint(c)
    /\ modPc[c] = "flush" => ENABLED ModuleDrain(c)
    /\ modPc[c] = "flushprint" => ENABLED ModuleFlushPrint(c)
    /\ modPc[c] = "ack" => ENABLED ModuleAck(c)

C33_ModuleGoesOn ==
  \A p \in Procs, c \in ChanIds :
    (TimedOutAt(p, c) /\ modPc[c] # "none") ~>
      (modPc[c] = "select" /\ chanBuf[c] = <<>> /\ flushBuf[c] = <<>>)

C33_TimeoutStopsNothing ==
  []C33_ModuleNotStopped /\ [][C33_NoResend]_vars /\ C33_ModuleGoesOn

\* the first Flush timed out and its acknowledgment came late; the module
\* has printed records since, and the second Flush was served by it
C33_Witness ==
  /\ pc[MainProc] = "ret" /\ call[MainProc].op = "flush" /\ flushRes[MainProc] = <<"ack">>
  /\ nextAck = 3 /\ ackBuf[1] = <<TRUE>> /\ ackBuf[2] = <<>>
  /\ nextRec > 1 /\ modPc[1] = "select" /\ ~Unwritten(1)

(***************************************************************************)
(* C34.  A request whose flushHelper timed out before the module read it   *)
(* stays in the flush channel.  As long as it is there every flushHelper   *)
(* call on that channel returns false in its first select, without making  *)
(* a request of its own; only the module takes the stale request out, by   *)
(* reading it.  The module then serves it as any other request: it drains  *)
(* its data channel and sends true on the response channel of the request, *)
(* which nobody reads any more: a response channel that its caller has     *)
(* left is never read again, the acknowledgment stays in it.               *)
(***************************************************************************)
Abandoned(a) == a \in 1..(nextAck - 1) /\ \A p \in Procs : responseChan[p] # a

Stale(c) == flushBuf[c] # <<>> /\ Abandoned(Head(flushBuf[c]))

C34_RequestStays ==
  \A p \in Procs, c \in ChanIds :
    (TimesOut(p) /\ c = CurFlushChan(p) /\ flushBuf[c] = <<responseChan[p]>>) =>
      /\ flushBuf' = flushBuf
      /\ Stale(c)'

C34_LaterCallsFail ==
  \A p \in Procs :
    (pc[p] = "fsend" /\ Stale(CurFlushChan(p)) /\ FlushStep(p)) =>
      /\ flushRes'[p] = Append(flushRes[p], "pending")
      /\ UNCHANGED <<flushBuf, ackBuf, nextAck, modRet, responseChan>>

C34_OnlyModuleReads ==
  \A c \in ChanIds :
    (Stale(c) /\ flushBuf'[c] # flushBuf[c]) =>
      /\ modPc[c] = "select" /\ modPc'[c] = "flush"
      /\ modRet'[c] = Head(flushBuf[c]) /\ flushBuf'[c] = <<>>

C34_ServedOnAbandoned ==
  \A c \in ChanIds :
    (Abandoned(modRet[c]) /\ modPc[c] = "ack" /\ modPc'[c] # "ack") =>
      /\ served[modRet[c]].owed = {}
      /\ ackBuf' = [ackBuf EXCEPT ![modRet[c]] = <<TRUE>>]
      /\ modPc'[c] = "select"

C34_AckNeverRead ==
  \A a \in AckIds :
    Abandoned(a) => Abandoned(a)' /\ Len(ackBuf'[a]) >= Len(ackBuf[a])

C34_StaleRequest ==
  [][/\ C34_RequestStays /\ C34_LaterCallsFail /\ C34_OnlyModuleReads
     /\ C34_ServedOnAbandoned /\ C34_AckNeverRead]_vars

\* the first Flush timed out with its request unread, the second was
\* rejected at once; the module has read the stale request since, drained
\* and acknowledged on the response channel that nobody reads
C34_Witness ==
  /\ pc[MainProc] = "ret" /\ call[MainProc].op = "flush" /\ flushRes[MainProc] = <<"pending">>
  /\ nextAck = 2 /\ flushBuf[1] = <<>> /\ modPc[1] = "select"
  /\ ackBuf[1] = <<TRUE>> /\ nextRec > 1 /\ ~Unwritten(1)

(***************************************************************************)
(* C35.  Concurrent callers of Flush do not deadlock.  A flush channel     *)
(* never holds more than one request that the module has not read.  A      *)
(* caller in flushHelper always has a step to take: one that finds the     *)
(* flush channel of a module occupied, by the request of another caller or *)
(* by a stale one, gets false for that module in that very step and goes   *)
(* on; one that waits for an acknowledgment is woken by it or by its       *)
(* timer.  Every Flush call of a goroutine that is scheduled returns.      *)
(***************************************************************************)
C35_OneUnreadRequest ==
  \A c \in ChanIds :
    /\ Len(flushBuf[c]) <= 1
    /\ Cardinality({p \in Procs : responseChan[p] \in Range(flushBuf[c])}) <= 1

C35_NoCallerBlocked == \A p \in Procs : InFlush(p) => ENABLED FlushCaller(p)

C35_OccupiedFailsAtOnce ==
  \A p \in Procs :
    (pc[p] = "fsend" /\ flushBuf[CurFlushChan(p)] # <<>>) =>
      /\ FlushCaller(p) => /\ flushRes'[p] = Append(flushRes[p], "pending")
                           /\ flushIdx'[p] = flushIdx[p] + 1
                           /\ pc'[p] \in {"fsend", "ret"}
                           /\ flushBuf' = flushBuf
      /\ \A q \in Procs \ {p} : FlushCaller(q) => pc'[p] = pc[p] /\ flushRes'[p] = flushRes[p]

C35_EveryFlushReturns ==
  \A p \in Procs : InFlush(p) ~> (pc[p] = "ret" /\ call[p].op = "flush")

C35_ConcurrentFlushes ==
  /\ []C35_OneUnreadRequest /\ []C35_NoCallerBlocked
  /\ [][C35_OccupiedFailsAtOnce]_vars
  /\ C35_EveryFlushReturns

\* one caller waits for the acknowledgment of the request it put into the
\* flush channel of the only module; another caller has found that channel
\* occupied meanwhile and its Flush has returned
C35_Witness ==
  \E p, q \in Procs, c \in ChanIds :
    /\ p # q /\ flushList[p] = <<c>> /\ flushList[q] = <<c>>
    /\ pc[p] = "fwait" /\ flushBuf[c] = <<responseChan[p]>>
    /\ pc[q] = "ret" /\ call[q].op = "flush" /\ flushRes[q] = <<"pending">>

(***************************************************************************)
(* C36.  A module that has read a flush request sends the acknowledgment   *)
(* in the end, when the module goroutines are scheduled fairly and the     *)
(* callers log finitely many records (the behaviours of the model build    *)
(* MaxRecs records at most).  The drain loop of flush never waits: at      *)
(* every turn it takes a record that is queued, and the first time it      *)
(* finds the data channel empty it returns, whereupon the module sends     *)
(* true on the response channel of the request and lets go of it.          *)
(***************************************************************************)
C36_DrainNeverWaits ==
  \A c \in ChanIds :
    /\ modPc[c] = "flush" => ENABLED ModuleDrain(c)
    /\ modPc[c] = "flushprint" => ENABLED ModuleFlushPrint(c)
    /\ modPc[c] = "ack" => ENABLED ModuleAck(c)

C36_EndsWhenEmpty ==
  \A c \in ChanIds :
    /\ (modPc[c] = "flush" /\ chanBuf[c] = <<>> /\ modPc'[c] # "flush") => modPc'[c] = "ack"
    /\ (modPc[c] = "flush" /\ chanBuf[c] # <<>> /\ modPc'[c] # "flush") =>
         modPc'[c] = "flushprint" /\ Len(chanBuf'[c]) = Len(chanBuf[c]) - 1
    /\ (modPc[c] # "ack" /\ modPc'[c] = "ack") => modPc[c] = "flush" /\ chanBuf[c] = <<>>
    /\ (modRet[c] # 0 /\ modRet'[c] # modRet[c]) =>
         /\ modPc[c] = "ack" /\ modRet'[c] = 0
         /\ ackBuf'[modRet[c]] = <<TRUE>>

C36_AckComes ==
  \A c \in ChanIds : (modRet[c] # 0) ~> (modRet[c] = 0 /\ modPc[c] = "select")

C36_RequestReadIsAcknowledged ==
  []C36_DrainNeverWaits /\ [][C36_EndsWhenEmpty]_vars /\ C36_AckComes

\* every record of the behaviour has been logged; the module has printed
\* what it found, seen its data channel empty and acknowledged, and the
\* caller of Flush is about to be woken
C36_Witness ==
  /\ nextRec - 1 = MaxRecs /\ pc[Worker] = "idle"
  /\ pc[MainProc] = "fwait" /\ responseChan[MainProc] = 1 /\ ackBuf[1] = <<TRUE>>
  /\ modPc[1] = "select" /\ modRet[1] = 0 /\ ~Unwritten(1)

(***************************************************************************)
(* C37.  After ResetState, new EnableModule calls and a new Start, the two *)
(* channel lists hold the channels that this Start made and no other.      *)
(* From then on a record is put into the data channel of a module of the   *)
(* latest Start only, and a flush request into the flush channel of such a *)
(* module only: the modules of an earlier Start get no further record and  *)
(* no further request.  The channels of a Start are new and empty, and a   *)
(* record that is queued for a module of an earlier Start, or in its       *)
(* hands, is never queued for a module of the latest one.                  *)
(***************************************************************************)
LatestChans ==
  IF initialized THEN (nextChan - Len(activeModules))..(nextChan - 1) ELSE {}

EarlierChans == {c \in ChanIds : modPc[c] # "none"} \ LatestChans

RecordsAt(c) ==
  {chanBuf[c][i].id : i \in 1..Len(chanBuf[c])} \cup
    (IF modCur[c] = NoRec THEN {} ELSE {modCur[c].id})

C37_ListsOfLatestStart ==
  /\ Range(msgChannels) = LatestChans /\ Range(flushChannels) = LatestChans
  /\ \A p \in Procs :
       /\ pc[p] \in {"send", "evict"} => Range(pushList[p]) = LatestChans
       /\ InFlush(p) => Range(flushList[p]) = LatestChans
  /\ \A c \in LatestChans, d \in EarlierChans : RecordsAt(c) \cap RecordsAt(d) = {}

C37_OnlyLatestAddressed ==
  \A c \in ChanIds :
    /\ (Len(chanBuf'[c]) > Len(chanBuf[c]) \/ RecordsAt(c)' \ RecordsAt(c) # {}) =>
         /\ c \in LatestChans
         /\ \E p \in Procs : pc[p] = "send" /\ RecordsAt(c)' \ RecordsAt(c) = {rec[p].id}
    /\ Len(flushBuf'[c]) > Len(flushBuf[c]) => c \in LatestChans

C37_NewChannelsEmpty ==
  (~initialized /\ initialized') =>
    \A c \in LatestChans' :
      /\ c \notin EarlierChans /\ modPc[c] = "none"
      /\ chanBuf'[c] = <<>> /\ flushBuf'[c] = <<>> /\ modCur'[c] = NoRec

UnknownPosition == [pc |-> 0, file |-> "unknown", line |-> 0]

Unresolved(r) == r # NoRec /\ r.Pc = 0

C38_BuiltWithUnknown ==
  \A p \in Procs, fn \in CallSiteApi :
    (LogCallUnresolved(p, fn, NoTag) /\ initialized
       /\ ~isFilteredSeverity(ApiSeverity(fn)) /\ ~isFilteredTag(NoTag)) =>
      /\ pc'[p] = "push" /\ call'[p].built /\ ret'[p] # "false"
      /\ rec'[p].Pc = UnknownPosition.pc
      /\ rec'[p].Msg =
           <<"<" \o ApiLevel(fn) \o ">">>
             \o (IF ApiPosInfo(fn) THEN <<"[unknown:0]">> ELSE <<>>) \o UserText
      /\ rec'[p].Severity = ApiSeverity(fn)
      /\ rec'[p].StackTrace # <<>> <=> fn \in {"Fatal", "Error"}

C38_BroadcastLikeAny ==
  \A p \in Procs :
    /\ Unresolved(rec[p]) =>
         /\ call[p].op = "log" /\ call[p].built
         /\ pc[p] \in {"push", "send", "evict", "ret"}
    /\ (pc[p] = "ret" /\ call[p].built) =>
         /\ ret[p] = "true"
         /\ pushIdx[p] = Len(pushList[p]) + 1
    /\ (pc[p] \in {"send", "evict"} /\ call[p].built) =>
         /\ pushIdx[p] \in 1..Len(pushList[p])
         /\ \A i \in 1..Len(outcome[p]) : outcome[p][i] \in Range(pushList[p])

C38_SentAsAny ==
  \A p \in Procs :
    (pc[p] = "send" /\ Unresolved(rec[p]) /\ CanSend(CurChan(p)) /\ pc'[p] # "send") =>
      /\ chanBuf'[CurChan(p)] = Append(chanBuf[CurChan(p)], rec[p])
      /\ outcome'[p] = Append(outcome[p], CurChan(p))

C38_UnresolvedCallSucceeds ==
  []C38_BroadcastLikeAny /\ [][C38_BuiltWithUnknown /\ C38_SentAsAny]_vars

\* a module prints a record of an Error call whose call site was not
\* resolved, and the call has returned true
C38_Witness ==
  \E p \in Procs, c \in ChanIds :
    /\ pc[p] = "ret" /\ ret[p] = "true" /\ Unresolved(rec[p])
    /\ rec[p].Msg = <<"<ERROR>", "[unknown:0]">> \o UserText
    /\ outcome[p] = <<c>> /\ modCur[c] = rec[p]

(***************************************************************************)
(* C39.  As claimed: a successful Start sets the ID counter to a multiple  *)
(* of 256 between 256 and 4194304, GenerateID returns the hexadecimal form *)
(* of the counter plus one, and from the first Start on every GenerateID   *)
(* call returns a value that is one greater than the value the call before *)
(* it returned, so that the IDs issued after Start increase strictly.  In  *)
(* SpecIds every ID of issued was issued after a Start.  (Start after      *)
(* ResetState sets the counter again, and the call that follows returns    *)
(* the new seed plus one, whatever the call before it returned.)           *)
(***************************************************************************)
\* the number that a sequence of hexadecimal digits writes
RECURSIVE HexValue(_)
HexValue(digits) ==
  IF digits = <<>> THEN 0
  ELSE 16 * HexValue(SubSeq(digits, 1, Len(digits) - 1))
         + (CHOOSE i \in 0..15 : HexDigits[i + 1] = digits[Len(digits)])

SeedRange == {n \in 256..4194304 : n % 256 = 0}

C39_SeedInRange ==
  (~initialized /\ initialized') => uniqueMsgID' \in SeedRange

C39_HexOfCounterPlusOne ==
  Len(issued') > Len(issued) =>
    /\ issued' = Append(issued, Sprintf_x(uniqueMsgID + 1))
    /\ HexValue(issued'[Len(issued')]) = uniqueMsgID + 1
    /\ uniqueMsgID' = uniqueMsgID + 1

C39_OneGreaterThanPrevious ==
  (Len(issued') > Len(issued) /\ issued # <<>>) =>
    HexValue(issued'[Len(issued')]) = HexValue(issued[Len(issued)]) + 1

C39_IdsIncreaseByOne ==
  [][C39_SeedInRange /\ C39_HexOfCounterPlusOne /\ C39_OneGreaterThanPrevious]_vars

====
